---- MODULE Spec2Model ----
(***************************************************************************)
(* A model of the Zaim API client (src/core/zaim-api-client.ts) and of the *)
(* OAuth 1.0a signer it drives (src/utils/oauth-signature.ts), and of the  *)
(* tool layer above it: TokenStorage, the input schemas, the tool          *)
(* functions and ToolHandler.executeTool.                                  *)
(*                                                                         *)
(* Strings are TLA+ strings; a character is a string of length one.  The   *)
(* JavaScript built-ins the code calls (encodeURIComponent, toUpperCase,   *)
(* localeCompare, URLSearchParams, String.split) are modelled character by *)
(* character on printable ASCII.                                           *)
(***************************************************************************)
EXTENDS Naturals, Sequences, FiniteSets, TLC

VARIABLES
    client,     \* <<>> before construction, <<config>> once a ZaimApiClient exists
    lastError,  \* message of the error the last constructor call threw ("" if none)
    attempted,  \* <<>> or <<config>>: the credential set last handed to the constructor
    now,        \* the clock, in whole seconds (Math.floor(Date.now() / 1000))
    calls,      \* the calls issued so far, each with its request and its outcome
    signerIn,   \* inputs of a direct use of the signer
    signerOut,  \* <<>> or <<artifacts>>: what the signer computed from signerIn
    env,        \* process.env: the environment variables that are set, as name/value pairs
    invoked     \* <<>> or <<invocation>>: the executeTool call and how far it got

vars == <<client, lastError, attempted, now, calls, signerIn, signerOut, env, invoked>>

clientVars == <<client, lastError, attempted, now, calls>>
signerVars == <<signerIn, signerOut>>
toolVars == <<env, invoked>>

(***************************************************************************)
(* Characters                                                              *)
(***************************************************************************)
LowerChars == "abcdefghijklmnopqrstuvwxyz"
UpperChars == "ABCDEFGHIJKLMNOPQRSTUVWXYZ"
DigitChars == "0123456789"

Ch(s, i) == SubSeq(s, i, i)

CharsOf(s) == {Ch(s, i) : i \in 1..Len(s)}

Least(S) == CHOOSE x \in S : \A y \in S : x <= y

\* position of the first character c in s, 0 when absent
LeastOrZero(S) == IF S = {} THEN 0 ELSE Least(S)

IndexOf(c, s) == LeastOrZero({i \in 1..Len(s) : Ch(s, i) = c})

\* the characters lo..hi of s, each replaced by its entry in table, concatenated
\* (by halves, to keep the evaluation shallow)
RECURSIVE MapChars(_, _, _, _)
MapChars(table, s, lo, hi) ==
    IF lo > hi THEN ""
    ELSE IF lo = hi THEN table[Ch(s, lo)]
    ELSE LET mid == (lo + hi) \div 2
         IN  MapChars(table, s, lo, mid) \o MapChars(table, s, mid + 1, hi)

AlnumSet == CharsOf(LowerChars \o UpperChars \o DigitChars)

IsAlnum(c) == c \in AlnumSet

\* The UTF-8 percent escape of the printable ASCII characters that are not
\* alphanumeric (the grave accent, which the module's lexer rejects, left out).
PercentEscape(c) ==
    CASE c = " "  -> "%20" [] c = "!"  -> "%21" [] c = "\"" -> "%22"
      [] c = "#"  -> "%23" [] c = "$"  -> "%24" [] c = "%"  -> "%25"
      [] c = "&"  -> "%26" [] c = "'"  -> "%27" [] c = "("  -> "%28"
      [] c = ")"  -> "%29" [] c = "*"  -> "%2A" [] c = "+"  -> "%2B"
      [] c = ","  -> "%2C" [] c = "-"  -> "%2D" [] c = "."  -> "%2E"
      [] c = "/"  -> "%2F" [] c = ":"  -> "%3A" [] c = ";"  -> "%3B"
      [] c = "<"  -> "%3C" [] c = "="  -> "%3D" [] c = ">"  -> "%3E"
      [] c = "?"  -> "%3F" [] c = "@"  -> "%40" [] c = "["  -> "%5B"
      [] c = "\\" -> "%5C" [] c = "]"  -> "%5D" [] c = "^"  -> "%5E"
      [] c = "_"  -> "%5F" [] c = "{"  -> "%7B"
      [] c = "|"  -> "%7C" [] c = "}"  -> "%7D" [] c = "~"  -> "%7E"

PunctChars == " !\"#$%&'()*+,-./:;<=>?@[\\]^_{|}~"

\* encodeURIComponent leaves A-Z a-z 0-9 - _ . ! ~ * ' ( ) and escapes the rest
UriUnescapedMarks == "-_.!~*'()"

\* the per-character result of encodeURIComponent, tabulated
UriEncodeTable ==
    [c \in AlnumSet \cup CharsOf(PunctChars) |->
        IF IsAlnum(c) \/ c \in CharsOf(UriUnescapedMarks) THEN c ELSE PercentEscape(c)]

encodeURIComponent(s) == MapChars(UriEncodeTable, s, 1, Len(s))

UpperCaseTable ==
    [c \in AlnumSet \cup CharsOf(PunctChars) |->
        LET i == IndexOf(c, LowerChars) IN IF i > 0 THEN Ch(UpperChars, i) ELSE c]

toUpperCase(s) == MapChars(UpperCaseTable, s, 1, Len(s))

(***************************************************************************)
(* String.prototype.localeCompare under the root collation: strings are    *)
(* compared on the primary weights of all their characters first           *)
(* (punctuation, then digits, then letters regardless of case), and only   *)
(* when those agree on case (lower before upper).                          *)
(***************************************************************************)
CollationOrder == "_-,;:!?.'\"()[]{}@*/\\&#%^+<=>|~$0123456789"

PrimaryWeightTable ==
    [c \in AlnumSet \cup CharsOf(PunctChars) |->
        LET p == IndexOf(c, CollationOrder)
            l == IndexOf(c, LowerChars)
            u == IndexOf(c, UpperChars)
        IN  IF p > 0 THEN p
            ELSE IF l > 0 THEN Len(CollationOrder) + l
            ELSE IF u > 0 THEN Len(CollationOrder) + u
            ELSE 0]

PrimaryWeight(c) == PrimaryWeightTable[c]

UpperSet == CharsOf(UpperChars)

CaseWeight(c) == IF c \in UpperSet THEN 1 ELSE 0

PrimaryWeights(s) == [i \in 1..Len(s) |-> PrimaryWeight(Ch(s, i))]

CaseWeights(s) == [i \in 1..Len(s) |-> CaseWeight(Ch(s, i))]

Min(x, y) == IF x < y THEN x ELSE y

\* the order of a and b, two sequences of weights that first differ at the
\* positions `differ` (none: the shorter one comes first)
OrderAt(a, b, differ) ==
    IF differ # {}
    THEN IF a[Least(differ)] < b[Least(differ)] THEN 0 - 1 ELSE 1
    ELSE IF Len(a) < Len(b) THEN 0 - 1
    ELSE IF Len(a) > Len(b) THEN 1
    ELSE 0

\* lexicographic comparison of two sequences of weights: -1, 0 or 1
CompareWeights(a, b) == OrderAt(a, b, {i \in 1..Min(Len(a), Len(b)) : a[i] # b[i]})

\* the first comparison unless it is a tie, then the second
TieBrokenBy(first, second) == IF first # 0 THEN first ELSE second

localeCompare(a, b) ==
    TieBrokenBy(CompareWeights(PrimaryWeights(a), PrimaryWeights(b)),
                CompareWeights(CaseWeights(a), CaseWeights(b)))

(***************************************************************************)
(* Objects used as maps: a sequence of <<key, value>> pairs with distinct  *)
(* keys, in insertion order (the order Object.entries yields).             *)
(***************************************************************************)
KeysOf(m) == {m[i][1] : i \in 1..Len(m)}

HasKey(m, k) == \E i \in 1..Len(m) : m[i][1] = k

Lookup(m, k) == m[CHOOSE i \in 1..Len(m) : m[i][1] = k][2]

\* obj[k] = v
Assign(m, k, v) ==
    IF HasKey(m, k)
    THEN [i \in 1..Len(m) |-> IF m[i][1] = k THEN <<k, v>> ELSE m[i]]
    ELSE Append(m, <<k, v>>)

\* { ...a, ...b }
RECURSIVE SpreadFrom(_, _, _)
SpreadFrom(a, b, i) ==
    IF i > Len(b) THEN a
    ELSE SpreadFrom(Assign(a, b[i][1], b[i][2]), b, i + 1)

Spread(a, b) == SpreadFrom(a, b, 1)

RECURSIVE JoinFrom(_, _, _)
JoinFrom(parts, sep, i) ==
    IF i > Len(parts) THEN ""
    ELSE IF i = Len(parts) THEN parts[i]
    ELSE parts[i] \o sep \o JoinFrom(parts, sep, i + 1)

\* Array.prototype.join
Join(parts, sep) == JoinFrom(parts, sep, 1)

(***************************************************************************)
(* The signer                                                              *)
(***************************************************************************)
\* Array.prototype.sort with the comparator ([a], [b]) => a.localeCompare(b):
\* a stable insertion of each pair after the pairs that do not compare greater.
RECURSIVE InsertSorted(_, _)
InsertSorted(sorted, p) ==
    IF sorted = <<>> THEN <<p>>
    ELSE IF localeCompare(p[1], sorted[Len(sorted)][1]) >= 0 THEN Append(sorted, p)
    ELSE Append(InsertSorted(SubSeq(sorted, 1, Len(sorted) - 1), p), sorted[Len(sorted)])

RECURSIVE SortFrom(_, _, _)
SortFrom(sorted, pairs, i) ==
    IF i > Len(pairs) THEN sorted
    ELSE SortFrom(InsertSorted(sorted, pairs[i]), pairs, i + 1)

SortByEncodedKey(pairs) == SortFrom(<<>>, pairs, 1)

EncodePairs(parameters) ==
    [i \in 1..Len(parameters) |->
        <<encodeURIComponent(parameters[i][1]), encodeURIComponent(parameters[i][2])>>]

\* .map(([key, value]) => `${key}=${value}`)
KeyEqualsValue(pairs) == [i \in 1..Len(pairs) |-> pairs[i][1] \o "=" \o pairs[i][2]]

\* normalizeParameters without its sort: the pairs stay in insertion order
normalizeParameters_Unsorted(parameters) ==
    Join(KeyEqualsValue(EncodePairs(parameters)), "&")

normalizeParameters(parameters) ==
    Join(KeyEqualsValue(SortByEncodedKey(EncodePairs(parameters))), "&")

\* constructBaseString that leaves the normalized parameters as they are
constructBaseString_RawParams(method, url, normalizedParams) ==
    Join(<<toUpperCase(method), encodeURIComponent(url), normalizedParams>>, "&")

\* constructBaseString that signs the method and the parameters only
constructBaseString_NoUrl(method, url, normalizedParams) ==
    Join(<<toUpperCase(method), encodeURIComponent(normalizedParams)>>, "&")

constructBaseString(method, url, normalizedParams) ==
    Join(<<toUpperCase(method), encodeURIComponent(url),
           encodeURIComponent(normalizedParams)>>, "&")

\* constructSigningKey that drops the '&' when there is no token secret
constructSigningKey_NoTrailingAmp(consumerSecret, tokenSecret) ==
    IF tokenSecret # <<>> /\ tokenSecret[1] # ""
    THEN encodeURIComponent(consumerSecret) \o "&" \o encodeURIComponent(tokenSecret[1])
    ELSE encodeURIComponent(consumerSecret)

\* tokenSecret is <<>> (not passed) or <<s>>; an empty s is falsy like undefined
constructSigningKey(consumerSecret, tokenSecret) ==
    LET encodedConsumerSecret == encodeURIComponent(consumerSecret)
        encodedTokenSecret ==
            IF tokenSecret # <<>> /\ tokenSecret[1] # ""
            THEN encodeURIComponent(tokenSecret[1]) ELSE ""
    IN  encodedConsumerSecret \o "&" \o encodedTokenSecret

\* crypto.createHmac('sha1', key).update(text).digest('base64'), taken as
\* collision-free: an injective function of (key, text).  The key holds no
\* '=' (encodeURIComponent escapes it), so the first '=' separates the two.
HmacSha1Base64(key, text) == key \o "=" \o text

generateOAuthSignature(method, url, parameters, consumerSecret, tokenSecret) ==
    LET normalizedParams == normalizeParameters(parameters)
        baseString == constructBaseString(method, url, normalizedParams)
        signingKey == constructSigningKey(consumerSecret, tokenSecret)
    IN  HmacSha1Base64(signingKey, baseString)

(***************************************************************************)
(* More of the JavaScript string library                                   *)
(***************************************************************************)
StartsWithAt(s, sub, i) ==
    /\ i + Len(sub) - 1 <= Len(s)
    /\ SubSeq(s, i, i + Len(sub) - 1) = sub

StartsWith(s, sub) == StartsWithAt(s, sub, 1)

\* String.prototype.includes
Includes(s, sub) == \E i \in 1..(Len(s) + 1) : StartsWithAt(s, sub, i)

\* String.prototype.substring(from, to), both 0-based, to exclusive
Substring(s, from, to) == SubSeq(s, from + 1, IF to < Len(s) THEN to ELSE Len(s))

\* the pieces of s between the occurrences of sep that start at the positions `at`
SplitAt(s, sep, at) ==
    LET nth(k) == CHOOSE i \in at : Cardinality({j \in at : j < i}) = k - 1
        from(k) == IF k = 1 THEN 1 ELSE nth(k - 1) + Len(sep)
        to(k) == IF k = Cardinality(at) + 1 THEN Len(s) ELSE nth(k) - 1
    IN  [k \in 1..(Cardinality(at) + 1) |-> SubSeq(s, from(k), to(k))]

\* String.prototype.split(sep), for the separators used here ("?", "&" and
\* ", "), whose occurrences cannot overlap
Split(s, sep) == SplitAt(s, sep, {i \in 1..Len(s) : StartsWithAt(s, sep, i)})

Greatest(S) == CHOOSE x \in S : \A y \in S : x >= y

Between(s, kept) ==
    IF kept = {} THEN "" ELSE SubSeq(s, Least(kept), Greatest(kept))

\* String.prototype.trim, the space being the only white space used here
Trim(s) == Between(s, {i \in 1..Len(s) : Ch(s, i) # " "})

\* String(value) of a string, a number or a boolean
StringOf(value) ==
    CASE value.t = "string"  -> value.v
      [] value.t = "number"  -> ToString(value.v)
      [] value.t = "boolean" -> IF value.v THEN "true" ELSE "false"

(***************************************************************************)
(* URLSearchParams: the application/x-www-form-urlencoded serializer       *)
(* (toString) and parser (the constructor taking a string).                *)
(***************************************************************************)
FormUnescapedMarks == "*-._"

FormEncodeTable ==
    [c \in AlnumSet \cup CharsOf(PunctChars) |->
        IF IsAlnum(c) \/ c \in CharsOf(FormUnescapedMarks) THEN c
        ELSE IF c = " " THEN "+"
        ELSE PercentEscape(c)]

FormEncode(s) == MapChars(FormEncodeTable, s, 1, Len(s))

\* URLSearchParams.prototype.toString of the appended pairs
URLSearchParamsToString(pairs) ==
    Join([i \in 1..Len(pairs) |-> FormEncode(pairs[i][1]) \o "=" \o FormEncode(pairs[i][2])],
         "&")

EscapeSet == {PercentEscape(c) : c \in CharsOf(PunctChars)}

UnescapeTable ==
    [e \in EscapeSet |-> CHOOSE c \in CharsOf(PunctChars) : PercentEscape(c) = e]

\* the positions of s where an escape of the table starts; its two hex
\* digits are no '%', so escapes do not overlap
EscapeStarts(s) ==
    {i \in 1..Len(s) : Ch(s, i) = "%" /\ i + 2 <= Len(s) /\ SubSeq(s, i, i + 2) \in EscapeSet}

RECURSIVE DecodeRange(_, _, _, _)
DecodeRange(s, starts, lo, hi) ==
    IF lo > hi THEN ""
    ELSE IF lo = hi
         THEN IF lo \in starts THEN UnescapeTable[SubSeq(s, lo, lo + 2)]
              ELSE IF (lo - 1) \in starts \/ (lo - 2) \in starts THEN ""
              ELSE Ch(s, lo)
    ELSE LET mid == (lo + hi) \div 2
         IN  DecodeRange(s, starts, lo, mid) \o DecodeRange(s, starts, mid + 1, hi)

\* percent-decoding; a '%' that starts no escape of the table stays as it is
\* (the serializers above never escape an alphanumeric character)
PercentDecode(s) == DecodeRange(s, EscapeStarts(s), 1, Len(s))

PlusToSpaceTable ==
    [c \in AlnumSet \cup CharsOf(PunctChars) |-> IF c = "+" THEN " " ELSE c]

\* decoding that takes '+' for a plus sign, as decodeURIComponent does
FormDecode_NoPlus(s) == PercentDecode(s)

FormDecode(s) == PercentDecode(MapChars(PlusToSpaceTable, s, 1, Len(s)))

\* one name=value piece of a query string, split at eq, its first '='
ParsePieceAt(piece, eq) ==
    IF eq = 0 THEN <<FormDecode(piece), "">>
    ELSE <<FormDecode(SubSeq(piece, 1, eq - 1)),
           FormDecode(SubSeq(piece, eq + 1, Len(piece)))>>

ParsePiece(piece) == ParsePieceAt(piece, IndexOf("=", piece))

ParsePieces(pieces) == [i \in 1..Len(pieces) |-> ParsePiece(pieces[i])]

\* new URLSearchParams(queryString): the pairs in order, empty pieces skipped
URLSearchParamsParse(queryString) ==
    ParsePieces(SelectSeq(Split(queryString, "&"), LAMBDA x : x # ""))

(***************************************************************************)
(* The API client.  An optional argument is <<>> when absent and <<x>> when *)
(* passed; request parameters are maps from names to typed values.         *)
(***************************************************************************)
Str(x) == [t |-> "string", v |-> x]
Num(n) == [t |-> "number", v |-> n]
Bool(b) == [t |-> "boolean", v |-> b]

baseUrl == "https://api.zaim.net"

\* validateConfig without its check of the access token
validateConfig_SkipsToken(config) ==
    IF config.consumerKey = "" THEN "consumerKey is required"
    ELSE IF config.consumerSecret = "" THEN "consumerSecret is required"
    ELSE IF config.accessTokenSecret = "" THEN "accessTokenSecret is required"
    ELSE ""

\* the message of the error validateConfig throws, "" when it returns
validateConfig(config) ==
    IF config.consumerKey = "" THEN "consumerKey is required"
    ELSE IF config.consumerSecret = "" THEN "consumerSecret is required"
    ELSE IF config.accessToken = "" THEN "accessToken is required"
    ELSE IF config.accessTokenSecret = "" THEN "accessTokenSecret is required"
    ELSE ""

\* every value of a parameter map coerced with String(value)
Stringified(params) ==
    [i \in 1..Len(params) |-> <<params[i][1], StringOf(params[i][2])>>]

buildUrl(endpoint, queryParams) ==
    IF queryParams # <<>> /\ Len(queryParams[1]) > 0
    THEN baseUrl \o endpoint \o "?" \o URLSearchParamsToString(Stringified(queryParams[1]))
    ELSE baseUrl \o endpoint

buildRequestParameters(data) ==
    IF data = <<>> THEN <<>> ELSE Spread(<<>>, Stringified(data[1]))

\* r1 and r2 are the two Math.random().toString(36) renderings
generateNonce(r1, r2) == Substring(r1, 2, 15) \o Substring(r2, 2, 15)

\* generateTimestamp that reads the clock once and for all
generateTimestamp_Frozen(clock) == "0"

\* clock is Date.now() / 1000 rounded down
generateTimestamp(clock) == ToString(clock)

\* buildAuthorizationHeader that quotes the values as they are
buildAuthorizationHeader_Raw(oauthParams) ==
    "OAuth " \o
    Join([i \in 1..Len(oauthParams) |->
             oauthParams[i][1] \o "=\"" \o oauthParams[i][2] \o "\""],
         ", ")

buildAuthorizationHeader(oauthParams) ==
    "OAuth " \o
    Join([i \in 1..Len(oauthParams) |->
             oauthParams[i][1] \o "=\"" \o encodeURIComponent(oauthParams[i][2]) \o "\""],
         ", ")

encodeFormData(params) ==
    Join([i \in 1..Len(params) |->
             encodeURIComponent(params[i][1]) \o "=" \o encodeURIComponent(params[i][2])],
         "&")

\* the six OAuth parameters generateAuthHeader starts from
OAuthParametersOf(config, r1, r2, clock) ==
    << <<"oauth_consumer_key", config.consumerKey>>,
       <<"oauth_nonce", generateNonce(r1, r2)>>,
       <<"oauth_signature_method", "HMAC-SHA1">>,
       <<"oauth_timestamp", generateTimestamp(clock)>>,
       <<"oauth_token", config.accessToken>>,
       <<"oauth_version", "1.0">> >>

\* the query parameters read back from the pieces of url.split('?')
QueryParamsOf(pieces) ==
    IF Len(pieces) >= 2 /\ pieces[2] # ""
    THEN Spread(<<>>, URLSearchParamsParse(pieces[2]))
    ELSE <<>>

\* what generateAuthHeader hands to the signer, and the header it builds
HeaderFrom(signedUrl, allParams, headerParams) ==
    [signedUrl    |-> signedUrl,
     signedParams |-> allParams,
     headerParams |-> headerParams,
     header       |-> buildAuthorizationHeader(headerParams)]

SignedHeader(config, method, signedUrl, oauthParams, allParams) ==
    HeaderFrom(signedUrl, allParams,
               Append(oauthParams,
                      <<"oauth_signature",
                        generateOAuthSignature(method, signedUrl, allParams,
                            config.consumerSecret, <<config.accessTokenSecret>>)>>))

SignedOver(config, method, pieces, oauthParams, requestParams) ==
    SignedHeader(config, method, pieces[1], oauthParams,
                 Spread(Spread(oauthParams, requestParams), QueryParamsOf(pieces)))

\* generateAuthHeader that signs the URL as fetch receives it, query string and all
AuthHeaderParts_WholeUrl(config, method, url, requestParams, r1, r2, clock) ==
    SignedHeader(config, method, url, OAuthParametersOf(config, r1, r2, clock),
                 Spread(OAuthParametersOf(config, r1, r2, clock), requestParams))

\* generateAuthHeader, with what it hands to the signer kept beside the header
AuthHeaderParts(config, method, url, requestParams, r1, r2, clock) ==
    SignedOver(config, method, Split(url, "?"),
               OAuthParametersOf(config, r1, r2, clock), requestParams)

generateAuthHeader(config, method, url, requestParams, r1, r2, clock) ==
    AuthHeaderParts(config, method, url, requestParams, r1, r2, clock).header

\* RequestOptions that gives every POST and PUT a form body, passed data or not
RequestOptions_AlwaysForm(method, data, requestParams, authHeader) ==
    IF method \in {"POST", "PUT"}
    THEN [method  |-> method,
          headers |-> << <<"Authorization", authHeader>>,
                         <<"User-Agent", "Zaim-MCP-Client/1.0">>,
                         <<"Content-Type", "application/x-www-form-urlencoded">> >>,
          body    |-> <<encodeFormData(requestParams)>>]
    ELSE [method  |-> method,
          headers |-> << <<"Authorization", authHeader>>,
                         <<"User-Agent", "Zaim-MCP-Client/1.0">> >>,
          body    |-> <<>>]

\* the RequestInit handed to fetch
RequestOptions(method, data, requestParams, authHeader) ==
    IF method \in {"POST", "PUT"} /\ data # <<>>
    THEN [method  |-> method,
          headers |-> << <<"Authorization", authHeader>>,
                         <<"User-Agent", "Zaim-MCP-Client/1.0">>,
                         <<"Content-Type", "application/x-www-form-urlencoded">> >>,
          body    |-> <<encodeFormData(requestParams)>>]
    ELSE [method  |-> method,
          headers |-> << <<"Authorization", authHeader>>,
                         <<"User-Agent", "Zaim-MCP-Client/1.0">> >>,
          body    |-> <<>>]

(***************************************************************************)
(* Responses.  A response is its HTTP status and what response.json()      *)
(* yields: a parsed JSON value, or "invalid" when parsing throws.  An      *)
(* object is a map from field names to strings.                            *)
(***************************************************************************)
JsonInvalid == [t |-> "invalid", fields |-> <<>>]
JsonNull == [t |-> "null", fields |-> <<>>]
JsonArray == [t |-> "array", fields |-> <<>>]
JsonString == [t |-> "string", fields |-> <<>>]
JsonNumber == [t |-> "number", fields |-> <<>>]
JsonObject(fields) == [t |-> "object", fields |-> fields]

Returned(value) == [kind |-> "return", value |-> <<value>>, isError |-> FALSE, message |-> ""]
\* throw new Error(message) (or a TypeError the runtime raises)
Thrown(message) == [kind |-> "throw", value |-> <<>>, isError |-> TRUE, message |-> message]
\* a rejection with a value that is no Error instance
ThrownNonError == [kind |-> "throw", value |-> <<>>, isError |-> FALSE, message |-> ""]

IsOk(status) == status >= 200 /\ status <= 299

\* data.name || ... : the field's value, "" (falsy) when there is none
FieldOrEmpty(data, name) ==
    IF data.t = "object" /\ HasKey(data.fields, name) THEN Lookup(data.fields, name) ELSE ""

\* handleResponse that prefers the error field to the message field
handleResponse_ErrorFirst(response) ==
    IF ~IsOk(response.status)
    THEN IF response.body.t = "null"
         THEN Thrown("Cannot read properties of null (reading 'message')")
         ELSE Thrown("Zaim API Error: " \o ToString(response.status) \o " - "
                     \o (IF FieldOrEmpty(response.body, "error") # ""
                         THEN FieldOrEmpty(response.body, "error")
                         ELSE IF FieldOrEmpty(response.body, "message") # ""
                         THEN FieldOrEmpty(response.body, "message")
                         ELSE "Unknown error"))
    ELSE Returned(IF response.body.t = "invalid" THEN JsonObject(<<>>) ELSE response.body)

\* handleResponse that also raises on a success status when the body names an error
handleResponse_RaisesOnErrorField(response) ==
    IF response.body.t = "null" THEN Thrown("Cannot read properties of null (reading 'message')")
    ELSE IF ~IsOk(response.status) \/ FieldOrEmpty(response.body, "error") # ""
    THEN Thrown("Zaim API Error: " \o ToString(response.status) \o " - "
                \o (IF FieldOrEmpty(response.body, "message") # ""
                    THEN FieldOrEmpty(response.body, "message")
                    ELSE IF FieldOrEmpty(response.body, "error") # ""
                    THEN FieldOrEmpty(response.body, "error")
                    ELSE "Unknown error"))
    ELSE Returned(IF response.body.t = "invalid" THEN JsonObject(<<>>) ELSE response.body)

handleResponse(response) ==
    LET responseData == IF response.body.t = "invalid" THEN JsonObject(<<>>) ELSE response.body
    IN  IF ~IsOk(response.status)
        THEN IF responseData.t = "null"
             THEN Thrown("Cannot read properties of null (reading 'message')")
             ELSE LET m == FieldOrEmpty(responseData, "message")
                      e == FieldOrEmpty(responseData, "error")
                      errorMessage == IF m # "" THEN m ELSE IF e # "" THEN e ELSE "Unknown error"
                  IN  Thrown("Zaim API Error: " \o ToString(response.status) \o " - "
                             \o errorMessage)
        ELSE Returned(responseData)

\* the catch block of request, applied to what its try block threw
RequestCatch(error) ==
    IF error.isError
    THEN IF Includes(error.message, "Zaim API Error") THEN error
         ELSE Thrown("Network error occurred: " \o error.message)
    ELSE Thrown("Unknown network error occurred")

\* how request ends once fetch has settled with `settled`: a response
\* ([ok |-> TRUE, response |-> r]) or a rejection ([ok |-> FALSE, error |-> e])
RequestOutcome(settled) ==
    LET tried == IF settled.ok THEN handleResponse(settled.response) ELSE settled.error
    IN  IF tried.kind = "throw" THEN RequestCatch(tried) ELSE tried

(***************************************************************************)
(* Operations                                                              *)
(***************************************************************************)
\* new ZaimApiClient(config)
Construct(config) ==
    /\ client = <<>>
    /\ attempted' = <<config>>
    /\ lastError' = validateConfig(config)
    /\ client' = IF validateConfig(config) = "" THEN <<config>> ELSE client
    /\ UNCHANGED <<now, calls, signerVars, toolVars>>

\* a call in flight: what request was given, the URL and the options it
\* invoked fetch with, and what it signed
InFlight(method, endpoint, data, queryParams, clock, draws, url, requestParams, auth) ==
    [method     |-> method,
     endpoint   |-> endpoint,
     data       |-> data,
     query      |-> queryParams,
     issuedAt   |-> clock,
     draws      |-> draws,
     url        |-> url,
     options    |-> RequestOptions(method, data, requestParams, auth.header),
     signedUrl  |-> auth.signedUrl,
     signedParams |-> auth.signedParams,
     headerParams |-> auth.headerParams,
     fetches    |-> 1,
     settled    |-> <<>>,
     outcome    |-> <<>>]

Prepared(method, endpoint, data, queryParams, r1, r2, url, requestParams) ==
    InFlight(method, endpoint, data, queryParams, now, <<r1, r2>>, url, requestParams,
             AuthHeaderParts(client[1], method, url, requestParams, r1, r2, now))

\* a request that drops the access token of the client once it has signed
Request_ForgetsToken(method, endpoint, data, queryParams, r1, r2) ==
    /\ client # <<>>
    /\ calls' = Append(calls,
                    Prepared(method, endpoint, data, queryParams, r1, r2,
                             buildUrl(endpoint, queryParams), buildRequestParameters(data)))
    /\ client' = <<[client[1] EXCEPT !.accessToken = ""]>>
    /\ UNCHANGED <<lastError, attempted, now, signerVars, toolVars>>

\* request, up to its await of fetch
Request(method, endpoint, data, queryParams, r1, r2) ==
    /\ client # <<>>
    /\ calls' = Append(calls,
                    Prepared(method, endpoint, data, queryParams, r1, r2,
                             buildUrl(endpoint, queryParams), buildRequestParameters(data)))
    /\ UNCHANGED <<client, lastError, attempted, now, signerVars, toolVars>>

Get(endpoint, params, r1, r2) == Request("GET", endpoint, <<>>, params, r1, r2)
Post(endpoint, data, r1, r2) == Request("POST", endpoint, data, <<>>, r1, r2)
Put(endpoint, data, r1, r2) == Request("PUT", endpoint, data, <<>>, r1, r2)
Delete(endpoint, r1, r2) == Request("DELETE", endpoint, <<>>, <<>>, r1, r2)

\* a request that calls fetch a second time when the first attempt failed
Settle_ResendsOnFailure(i, settled) ==
    /\ i \in 1..Len(calls)
    /\ calls[i].settled = <<>>
    /\ calls' = IF RequestOutcome(settled).kind = "throw" /\ calls[i].fetches = 1
                THEN [calls EXCEPT ![i].fetches = 2]
                ELSE [calls EXCEPT ![i].settled = <<settled>>,
                                   ![i].outcome = <<RequestOutcome(settled)>>]
    /\ UNCHANGED <<client, lastError, attempted, now, signerVars, toolVars>>

Settle(i, settled) ==
    /\ i \in 1..Len(calls)
    /\ calls[i].settled = <<>>
    /\ calls' = [calls EXCEPT ![i].settled = <<settled>>,
                              ![i].outcome = <<RequestOutcome(settled)>>]
    /\ UNCHANGED <<client, lastError, attempted, now, signerVars, toolVars>>

\* fetch resolves call i with a response
Respond(i, response) == Settle(i, [ok |-> TRUE, response |-> response, error |-> ThrownNonError])

\* fetch rejects call i
Reject(i, error) ==
    Settle(i, [ok |-> FALSE, response |-> [status |-> 0, body |-> JsonInvalid], error |-> error])

MaxClock == 1

\* a second passes
Tick ==
    /\ now < MaxClock
    /\ now' = now + 1
    /\ UNCHANGED <<client, lastError, attempted, calls, signerVars, toolVars>>

(***************************************************************************)
(* Direct use of the signer: the inputs are drawn at the start, Sign       *)
(* applies generateOAuthSignature and keeps the intermediate artifacts.    *)
(***************************************************************************)
MaxParams == 2

SignerMethods == {"GET", "get", "POST"}
SignerUrls == {"https://api.zaim.net/v2/home/money", "https://api.zaim.net/v2/genre"}
SignerKeys == {"a", "B", "c d"}
SignerValues == {"A1-._~", "a b", "&=", "!*'()"}
SignerSecrets == {<<"cs", <<>>>>, <<"cs", <<"">>>>, <<"c&s", <<"t&=s">>>>}

\* the parameter objects of at most n entries, as their Object.entries
ParameterMaps(n) ==
    UNION {{m \in [1..k -> SignerKeys \X SignerValues] :
                \A i, j \in 1..k : i # j => m[i][1] # m[j][1]} : k \in 0..n}

SignerInputs ==
    [method : SignerMethods, url : SignerUrls, parameters : ParameterMaps(MaxParams),
     secrets : SignerSecrets]

SignerArtifacts(in) ==
    LET normalizedParams == normalizeParameters(in.parameters)
    IN  [normalized |-> normalizedParams,
         baseString |-> constructBaseString(in.method, in.url, normalizedParams),
         signingKey |-> constructSigningKey(in.secrets[1], in.secrets[2]),
         signature  |-> generateOAuthSignature(in.method, in.url, in.parameters,
                                               in.secrets[1], in.secrets[2])]

ToolIdle ==
    /\ env = <<>>
    /\ invoked = <<>>

ClientIdle ==
    /\ client = <<>>
    /\ lastError = ""
    /\ attempted = <<>>
    /\ now = 0
    /\ calls = <<>>

SignerInit ==
    /\ ClientIdle
    /\ signerIn \in SignerInputs
    /\ signerOut = <<>>
    /\ ToolIdle

Sign ==
    /\ signerOut = <<>>
    /\ signerOut' = <<SignerArtifacts(signerIn)>>
    /\ UNCHANGED <<signerIn, clientVars, toolVars>>

SignerNext == Sign

SignerSpec == SignerInit /\ [][SignerNext]_vars

(***************************************************************************)
(* Inputs of the client's operations                                       *)
(***************************************************************************)
MaxCalls == 2

Configs ==
    [consumerKey : {"", " ", "ck"}, consumerSecret : {"", "c&s"},
     accessToken : {"", "a t"}, accessTokenSecret : {"", " ", "ts"}]

ValidConfigs == {c \in Configs : validateConfig(c) = ""}

DefaultConfig ==
    [consumerKey |-> "ck", consumerSecret |-> "c&s",
     accessToken |-> "a t", accessTokenSecret |-> "ts"]

Endpoints == {"/v2/home/money", "/v2/genre"}

\* Math.random().toString(36) of a zero and of a non-zero draw
RandomRenderings == {"0", "0.k3x9"}

\* two draws of zero, one of zero and one other, two others
RandomDraws == {<<"0", "0">>, <<"0", "0.k3x9">>, <<"0.k3x9", "0.k3x9">>}

PlainParams == << <<"mode", Str("payment")>>, <<"page", Num(2)>> >>
SpecialParams == << <<"a b", Str("x&y=z+1")>>, <<"B", Bool(TRUE)>> >>
PercentParams == << <<"q", Str("50%?")>> >>
OAuthNamedParams == << <<"oauth_nonce", Str("n")>>, <<"limit", Num(5)>> >>

\* an optional parameter map: absent, empty, or one of the maps above
RichParams ==
    {<<>>, << <<>> >>, <<PlainParams>>, <<SpecialParams>>, <<PercentParams>>,
     <<OAuthNamedParams>>}

FewParams == {<<>>, <<PlainParams>>}

Statuses == {200, 299, 300, 401}

Bodies ==
    {JsonInvalid, JsonNull, JsonArray, JsonString, JsonNumber,
     JsonObject(<<>>),
     JsonObject(<< <<"money", "m1">> >>),
     JsonObject(<< <<"message", "Invalid amount">> >>),
     JsonObject(<< <<"error", "Unauthorized">> >>),
     JsonObject(<< <<"error", "Bad Request">>, <<"message", "Invalid amount">> >>),
     JsonObject(<< <<"message", "">>, <<"error", "Bad Request">> >>)}

Responses == [status : Statuses, body : Bodies]

FewResponses ==
    {[status |-> 200, body |-> JsonObject(<< <<"money", "m1">> >>)],
     [status |-> 401, body |-> JsonObject(<< <<"error", "Unauthorized">> >>)]}

Rejections == {Thrown("fetch failed"), Thrown("proxy: Zaim API Error page"), ThrownNonError}

(***************************************************************************)
(* Spec: the life of a client.  It is constructed from any credential set, *)
(* then serves up to MaxCalls calls whose responses arrive in any order.   *)
(***************************************************************************)
Init ==
    /\ client = <<>>
    /\ lastError = ""
    /\ attempted = <<>>
    /\ now = 0
    /\ calls = <<>>
    /\ signerIn = <<>>
    /\ signerOut = <<>>
    /\ ToolIdle

Next ==
    \/ \E config \in Configs : Construct(config)
    \/ /\ Len(calls) < MaxCalls
       /\ \/ \E params \in FewParams : Get("/v2/home/money", params, "0.k3x9", "0.k3x9")
          \/ Post("/v2/home/money/payment", <<PlainParams>>, "0.k3x9", "0.k3x9")
          \/ Put("/v2/home/money/payment/1", <<PlainParams>>, "0.k3x9", "0.k3x9")
          \/ Delete("/v2/home/money/payment/1", "0.k3x9", "0.k3x9")
    \/ \E i \in 1..Len(calls) :
          \/ \E response \in FewResponses : Respond(i, response)
          \/ Reject(i, Thrown("fetch failed"))

Spec == Init /\ [][Next]_vars

(***************************************************************************)
(* CallSpec: one call on a constructed client, over every valid credential *)
(* set and every kind of parameter map.                                    *)
(***************************************************************************)
CallInit ==
    /\ client \in {<<config>> : config \in ValidConfigs}
    /\ lastError = ""
    /\ attempted = client
    /\ now = 0
    /\ calls = <<>>
    /\ signerIn = <<>>
    /\ signerOut = <<>>
    /\ ToolIdle

CallNext ==
    \/ /\ calls = <<>>
       /\ \E endpoint \in Endpoints, r \in RandomRenderings :
             \/ \E params \in RichParams : Get(endpoint, params, r, r)
             \/ \E data \in RichParams : Post(endpoint, data, r, r)
             \/ \E data \in RichParams : Put(endpoint, data, r, r)
             \/ Delete(endpoint, r, r)
    \/ \E i \in 1..Len(calls) :
          \/ \E response \in FewResponses : Respond(i, response)
          \/ Reject(i, Thrown("fetch failed"))

CallSpec == CallInit /\ [][CallNext]_vars

(***************************************************************************)
(* ReplaySpec: up to MaxCalls requests issued by one client while the      *)
(* clock runs, each with its own random draws.                             *)
(***************************************************************************)
ReplayInit ==
    /\ client = <<DefaultConfig>>
    /\ lastError = ""
    /\ attempted = client
    /\ now = 0
    /\ calls = <<>>
    /\ signerIn = <<>>
    /\ signerOut = <<>>
    /\ ToolIdle

ReplayNext ==
    \/ /\ Len(calls) < MaxCalls
       /\ \E draws \in RandomDraws :
             \/ \E params \in {<<>>, <<OAuthNamedParams>>} :
                   Get("/v2/home/money", params, draws[1], draws[2])
             \/ Post("/v2/home/money/payment", <<PlainParams>>, draws[1], draws[2])
    \/ Tick

ReplaySpec == ReplayInit /\ [][ReplayNext]_vars

(***************************************************************************)
(* SettleSpec: one call of one client, settled by every shape of response  *)
(* and of rejection the transport can produce.                             *)
(***************************************************************************)
SettleNext ==
    \/ /\ calls = <<>>
       /\ \E endpoint \in Endpoints :
             \/ \E params \in FewParams : Get(endpoint, params, "0.k3x9", "0.k3x9")
             \/ Post(endpoint, <<PlainParams>>, "0.k3x9", "0.k3x9")
             \/ Put(endpoint, <<PlainParams>>, "0.k3x9", "0.k3x9")
             \/ Delete(endpoint, "0.k3x9", "0.k3x9")
    \/ \E i \in 1..Len(calls) :
          \/ \E response \in Responses : Respond(i, response)
          \/ \E error \in Rejections : Reject(i, error)

SettleSpec == ReplayInit /\ [][SettleNext]_vars

(***************************************************************************)
(* TokenStorage: the credentials read from the environment                 *)
(***************************************************************************)
REQUIRED_ENV_VARS ==
    <<"ZAIM_CONSUMER_KEY", "ZAIM_CONSUMER_SECRET", "ZAIM_ACCESS_TOKEN",
      "ZAIM_ACCESS_TOKEN_SECRET">>

\* process.env[varName]: <<>> when the variable is not set
EnvVar(environment, varName) ==
    IF HasKey(environment, varName) THEN <<Lookup(environment, varName)>> ELSE <<>>

\* getRequiredEnvVar that hands the value over as it is set
getRequiredEnvVar_Untrimmed(environment, varName) ==
    IF EnvVar(environment, varName) = <<>> \/ EnvVar(environment, varName) = <<"">>
    THEN Thrown("Missing required environment variable: " \o varName)
    ELSE Returned(EnvVar(environment, varName)[1])

getRequiredEnvVar(environment, varName) ==
    IF \/ EnvVar(environment, varName) = <<>>
       \/ EnvVar(environment, varName) = <<"">>
       \/ Trim(EnvVar(environment, varName)[1]) = ""
    THEN Thrown("Missing required environment variable: " \o varName)
    ELSE Returned(Trim(EnvVar(environment, varName)[1]))

\* the four reads of getOAuthConfig in order; the first one that throws ends it
OAuthConfigFrom(consumerKey, consumerSecret, accessToken, accessTokenSecret) ==
    IF consumerKey.kind = "throw" THEN consumerKey
    ELSE IF consumerSecret.kind = "throw" THEN consumerSecret
    ELSE IF accessToken.kind = "throw" THEN accessToken
    ELSE IF accessTokenSecret.kind = "throw" THEN accessTokenSecret
    ELSE Returned([consumerKey       |-> consumerKey.value[1],
                   consumerSecret    |-> consumerSecret.value[1],
                   accessToken       |-> accessToken.value[1],
                   accessTokenSecret |-> accessTokenSecret.value[1]])

getOAuthConfig(environment) ==
    OAuthConfigFrom(getRequiredEnvVar(environment, "ZAIM_CONSUMER_KEY"),
                    getRequiredEnvVar(environment, "ZAIM_CONSUMER_SECRET"),
                    getRequiredEnvVar(environment, "ZAIM_ACCESS_TOKEN"),
                    getRequiredEnvVar(environment, "ZAIM_ACCESS_TOKEN_SECRET"))

\* new ZaimApiClient(config): the client (its config) or what validateConfig threw
NewZaimApiClient(config) ==
    IF validateConfig(config) = "" THEN Returned(config) ELSE Thrown(validateConfig(config))

ClientFrom(loaded) ==
    IF loaded.kind = "throw" THEN loaded ELSE NewZaimApiClient(loaded.value[1])

createZaimApiClient(environment) == ClientFrom(getOAuthConfig(environment))

(***************************************************************************)
(* zod: the input schemas and how they parse the arguments of a tool       *)
(***************************************************************************)
Undefined == [t |-> "undefined", fields |-> <<>>]

z_number == [type |-> "number", optional |-> FALSE, positive |-> FALSE, values |-> {}, default |-> <<>>]
z_string == [type |-> "string", optional |-> FALSE, positive |-> FALSE, values |-> {}, default |-> <<>>]
z_enum(values) == [type |-> "enum", optional |-> FALSE, positive |-> FALSE, values |-> values, default |-> <<>>]
Positive(field) == [field EXCEPT !.positive = TRUE]
Optional(field) == [field EXCEPT !.optional = TRUE]
Default(field, value) == [field EXCEPT !.default = <<value>>]

\* z.object(shape).strict(), with the message of its refinement ("" if it has none)
StrictObject(shape) == [shape |-> shape, refine |-> ""]
Refine(schema, message) == [schema EXCEPT !.refine = message]

\* the issue code a value draws from the schema of its field ("" if none)
ValueIssue(field, value) ==
    IF field.type = "number"
    THEN IF value.t # "number" THEN "invalid_type"
         ELSE IF field.positive /\ ~(value.v > 0) THEN "too_small" ELSE ""
    ELSE IF field.type = "string"
    THEN IF value.t # "string" THEN "invalid_type" ELSE ""
    ELSE IF value.t # "string" THEN "invalid_type"
         ELSE IF value.v \notin field.values THEN "invalid_enum_value" ELSE ""

FieldIssue(field, key, data) ==
    IF HasKey(data, key) THEN ValueIssue(field, Lookup(data, key))
    ELSE IF field.optional \/ field.default # <<>> THEN "" ELSE "invalid_type"

ShapeKeys(schema) == {schema.shape[i][1] : i \in 1..Len(schema.shape)}

\* one issue per failing field, in the order of the shape
FieldIssues(schema, data) ==
    SelectSeq([i \in 1..Len(schema.shape) |->
                  <<FieldIssue(schema.shape[i][2], schema.shape[i][1], data), schema.shape[i][1]>>],
              LAMBDA issue : issue[1] # "")

\* strict(): the keys the shape does not know draw one issue
UnrecognizedKeys(schema, data) ==
    IF KeysOf(data) \subseteq ShapeKeys(schema) THEN <<>> ELSE << <<"unrecognized_keys", "">> >>

\* the refinement of UpdateMoneyRecordInputSchema
GenreIdGivenForPayment(data) ==
    ~(/\ HasKey(data, "mode")
      /\ Lookup(data, "mode") = Str("payment")
      /\ ~HasKey(data, "genre_id"))

Aborting(issues) == \E i \in 1..Len(issues) : issues[i][1] \in {"invalid_type", "invalid_enum_value"}

\* the refinement runs on what the object parse did not abort
RefinementIssues(schema, data, issues) ==
    IF schema.refine # "" /\ ~Aborting(issues) /\ ~GenreIdGivenForPayment(data)
    THEN << <<"custom", schema.refine>> >>
    ELSE <<>>

ObjectIssues(schema, data) == FieldIssues(schema, data) \o UnrecognizedKeys(schema, data)

IssuesOf(schema, args) ==
    IF args.t # "object" THEN << <<"invalid_type", "">> >>
    ELSE ObjectIssues(schema, args.fields)
            \o RefinementIssues(schema, args.fields, ObjectIssues(schema, args.fields))

\* the parsed input: the fields of the shape that are given or have a default
Marked(schema, data) ==
    [i \in 1..Len(schema.shape) |->
        IF HasKey(data, schema.shape[i][1])
        THEN <<schema.shape[i][1], <<Lookup(data, schema.shape[i][1])>> >>
        ELSE <<schema.shape[i][1], schema.shape[i][2].default>>]

Unmarked(marked) == [i \in 1..Len(marked) |-> <<marked[i][1], marked[i][2][1]>>]

ParsedInput(schema, data) ==
    Unmarked(SelectSeq(Marked(schema, data), LAMBDA pair : pair[2] # <<>>))

\* ZodError.message: the issues as JSON text
IssueText(issue) == "{" \o issue[1] \o (IF issue[2] = "" THEN "" ELSE ":" \o issue[2]) \o "}"
ZodErrorMessage(issues) == "[" \o Join([i \in 1..Len(issues) |-> IssueText(issues[i])], ",") \o "]"
ZodError(issues) == [kind |-> "throw", value |-> <<>>, isError |-> TRUE, name |-> "ZodError",
                     code |-> "", message |-> ZodErrorMessage(issues)]

\* schema.parse(args): the parsed input, or a ZodError
Parse(schema, args) ==
    IF IssuesOf(schema, args) = <<>> THEN Returned(ParsedInput(schema, args.fields))
    ELSE ZodError(IssuesOf(schema, args))

ModeEnum == {"payment", "income", "transfer"}

CheckAuthStatusInputSchema == StrictObject(<<>>)
GetUserInfoInputSchema == StrictObject(<<>>)

GetMoneyRecordsInputSchema ==
    StrictObject(<< <<"mode", Optional(z_enum(ModeEnum))>>,
                    <<"start_date", Optional(z_string)>>,
                    <<"end_date", Optional(z_string)>>,
                    <<"category_id", Optional(z_number)>>,
                    <<"limit", Default(Optional(z_number), Num(20))>>,
                    <<"page", Default(Optional(z_number), Num(1))>> >>)

CreatePaymentInputSchema ==
    StrictObject(<< <<"amount", Positive(z_number)>>,
                    <<"date", z_string>>,
                    <<"category_id", z_number>>,
                    <<"genre_id", Optional(z_number)>>,
                    <<"from_account_id", Optional(z_number)>>,
                    <<"place", Optional(z_string)>>,
                    <<"comment", Optional(z_string)>>,
                    <<"name", Optional(z_string)>> >>)

CreateIncomeInputSchema ==
    StrictObject(<< <<"amount", Positive(z_number)>>,
                    <<"date", z_string>>,
                    <<"category_id", z_number>>,
                    <<"to_account_id", Optional(z_number)>>,
                    <<"place", Optional(z_string)>>,
                    <<"comment", Optional(z_string)>> >>)

CreateTransferInputSchema ==
    StrictObject(<< <<"amount", Positive(z_number)>>,
                    <<"date", z_string>>,
                    <<"from_account_id", z_number>>,
                    <<"to_account_id", z_number>>,
                    <<"comment", Optional(z_string)>> >>)

UpdateMoneyRecordInputSchema ==
    Refine(StrictObject(<< <<"id", z_number>>,
                           <<"mode", z_enum(ModeEnum)>>,
                           <<"amount", Optional(Positive(z_number))>>,
                           <<"date", Optional(z_string)>>,
                           <<"category_id", Optional(z_number)>>,
                           <<"genre_id", Optional(z_number)>>,
                           <<"from_account_id", Optional(z_number)>>,
                           <<"to_account_id", Optional(z_number)>>,
                           <<"place", Optional(z_string)>>,
                           <<"comment", Optional(z_string)>>,
                           <<"name", Optional(z_string)>> >>),
           "genre_id is required when mode is payment")

DeleteMoneyRecordInputSchema ==
    StrictObject(<< <<"id", z_number>>, <<"mode", z_enum(ModeEnum)>> >>)

GetUserCategoriesInputSchema == StrictObject(<<>>)
GetUserGenresInputSchema == StrictObject(<<>>)
GetUserAccountsInputSchema == StrictObject(<<>>)
GetDefaultCategoriesByModeInputSchema == StrictObject(<< <<"mode", z_enum({"payment", "income"})>> >>)
GetDefaultGenresByModeInputSchema == StrictObject(<< <<"mode", z_enum({"payment", "income"})>> >>)
GetCurrenciesInputSchema == StrictObject(<<>>)

\* inputSchema.required of createPaymentToolDefinition
createPaymentToolDefinition_required == <<"amount", "date", "category_id">>

(***************************************************************************)
(* The tool call-sites.  The Japanese texts of their messages are written  *)
(* in Latin letters.                                                       *)
(***************************************************************************)
\* what a tool function is made of: the request it sends, the field of the
\* response it looks for, and the result it returns
\*   kind       "auth" | "user" | "list" | "record" | "deleted"
\*   byRecord   the endpoint ends in /<mode>/<id> of the input
\*   sends      "none" | "query" | "body": where the input goes
\*   leading    the pairs the body starts with
\*   keys       the input fields copied into the query or the body
\*   truthyOnly only the truthy ones of those fields are copied
checkAuthStatusTool ==
    [name |-> "zaim_check_auth_status", schema |-> CheckAuthStatusInputSchema,
     kind |-> "auth", method |-> "GET", path |-> "/v2/home/user/verify", byRecord |-> FALSE,
     sends |-> "none", leading |-> <<>>, keys |-> <<>>, truthyOnly |-> FALSE,
     field |-> "me", flag |-> "isAuthenticated", payload |-> "user",
     failed |-> "Ninshou ni shippai shimashita: ",
     invalid |-> "Ninshou ni shippai shimashita: mukou na resuponsu keishiki",
     succeeded |-> "Ninshou ni seikou shimashita"]

getUserInfoTool ==
    [name |-> "zaim_get_user_info", schema |-> GetUserInfoInputSchema,
     kind |-> "user", method |-> "GET", path |-> "/v2/home/user/verify", byRecord |-> FALSE,
     sends |-> "none", leading |-> <<>>, keys |-> <<>>, truthyOnly |-> FALSE,
     field |-> "me", flag |-> "success", payload |-> "user",
     failed |-> "Yuuzaa jouhou no shutoku ni shippai shimashita: ",
     invalid |-> "Yuuzaa jouhou no shutoku ni shippai shimashita: yuuzaa deeta ga mitsukarimasen",
     succeeded |-> "Yuuzaa jouhou wo shutoku shimashita"]

getMoneyRecordsTool ==
    [name |-> "zaim_get_money_records", schema |-> GetMoneyRecordsInputSchema,
     kind |-> "list", method |-> "GET", path |-> "/v2/home/money", byRecord |-> FALSE,
     sends |-> "query", leading |-> <<>>,
     keys |-> <<"mode", "start_date", "end_date", "category_id", "limit", "page">>,
     truthyOnly |-> TRUE,
     field |-> "money", flag |-> "success", payload |-> "records",
     failed |-> "Kiroku no shutoku ni shippai shimashita: ",
     invalid |-> "Kiroku no shutoku ni shippai shimashita: mukou na resuponsu keishiki",
     succeeded |-> "-ken no kiroku wo shutoku shimashita"]

createPaymentTool ==
    [name |-> "zaim_create_payment", schema |-> CreatePaymentInputSchema,
     kind |-> "record", method |-> "POST", path |-> "/v2/home/money/payment", byRecord |-> FALSE,
     sends |-> "body", leading |-> <<>>,
     keys |-> <<"amount", "date", "category_id", "genre_id", "from_account_id", "place",
                "comment", "name">>,
     truthyOnly |-> FALSE,
     field |-> "money", flag |-> "success", payload |-> "record",
     failed |-> "Shishutsu kiroku no sakusei ni shippai shimashita: ",
     invalid |-> "Shishutsu kiroku no sakusei ni shippai shimashita: mukou na resuponsu keishiki",
     succeeded |-> "Shishutsu kiroku wo sakusei shimashita"]

createIncomeTool ==
    [name |-> "zaim_create_income", schema |-> CreateIncomeInputSchema,
     kind |-> "record", method |-> "POST", path |-> "/v2/home/money/income", byRecord |-> FALSE,
     sends |-> "body", leading |-> <<>>,
     keys |-> <<"amount", "date", "category_id", "to_account_id", "place", "comment">>,
     truthyOnly |-> FALSE,
     field |-> "money", flag |-> "success", payload |-> "record",
     failed |-> "Shuunyuu kiroku no sakusei ni shippai shimashita: ",
     invalid |-> "Shuunyuu kiroku no sakusei ni shippai shimashita: mukou na resuponsu keishiki",
     succeeded |-> "Shuunyuu kiroku wo sakusei shimashita"]

createTransferTool ==
    [name |-> "zaim_create_transfer", schema |-> CreateTransferInputSchema,
     kind |-> "record", method |-> "POST", path |-> "/v2/home/money/transfer", byRecord |-> FALSE,
     sends |-> "body", leading |-> <<>>,
     keys |-> <<"amount", "date", "from_account_id", "to_account_id", "comment">>,
     truthyOnly |-> FALSE,
     field |-> "money", flag |-> "success", payload |-> "record",
     failed |-> "Furikae kiroku no sakusei ni shippai shimashita: ",
     invalid |-> "Furikae kiroku no sakusei ni shippai shimashita: mukou na resuponsu keishiki",
     succeeded |-> "Furikae kiroku wo sakusei shimashita"]

updateMoneyRecordTool ==
    [name |-> "zaim_update_money_record", schema |-> UpdateMoneyRecordInputSchema,
     kind |-> "record", method |-> "PUT", path |-> "/v2/home/money/", byRecord |-> TRUE,
     sends |-> "body", leading |-> << <<"mapping", Num(1)>> >>,
     keys |-> <<"amount", "date", "category_id", "genre_id", "from_account_id",
                "to_account_id", "place", "comment", "name">>,
     truthyOnly |-> FALSE,
     field |-> "money", flag |-> "success", payload |-> "record",
     failed |-> "Kiroku no koushin ni shippai shimashita: ",
     invalid |-> "Kiroku no koushin ni shippai shimashita: mukou na resuponsu keishiki",
     succeeded |-> "Kiroku wo koushin shimashita"]

deleteMoneyRecordTool ==
    [name |-> "zaim_delete_money_record", schema |-> DeleteMoneyRecordInputSchema,
     kind |-> "deleted", method |-> "DELETE", path |-> "/v2/home/money/", byRecord |-> TRUE,
     sends |-> "none", leading |-> <<>>, keys |-> <<>>, truthyOnly |-> FALSE,
     field |-> "money", flag |-> "success", payload |-> "deleted_record",
     failed |-> "Kiroku no sakujo ni shippai shimashita: ",
     invalid |-> "Kiroku no sakujo ni shippai shimashita: mukou na resuponsu keishiki",
     succeeded |-> "Kiroku wo sakujo shimashita"]

getUserCategoriesTool ==
    [name |-> "zaim_get_user_categories", schema |-> GetUserCategoriesInputSchema,
     kind |-> "list", method |-> "GET", path |-> "/v2/home/category", byRecord |-> FALSE,
     sends |-> "none", leading |-> <<>>, keys |-> <<>>, truthyOnly |-> FALSE,
     field |-> "categories", flag |-> "success", payload |-> "categories",
     failed |-> "Kategori no shutoku ni shippai shimashita: ",
     invalid |-> "Kategori no shutoku ni shippai shimashita: mukou na resuponsu keishiki",
     succeeded |-> "-ken no kategori wo shutoku shimashita"]

getUserGenresTool ==
    [name |-> "zaim_get_user_genres", schema |-> GetUserGenresInputSchema,
     kind |-> "list", method |-> "GET", path |-> "/v2/home/genre", byRecord |-> FALSE,
     sends |-> "none", leading |-> <<>>, keys |-> <<>>, truthyOnly |-> FALSE,
     field |-> "genres", flag |-> "success", payload |-> "genres",
     failed |-> "Janru no shutoku ni shippai shimashita: ",
     invalid |-> "Janru no shutoku ni shippai shimashita: mukou na resuponsu keishiki",
     succeeded |-> "-ken no janru wo shutoku shimashita"]

getUserAccountsTool ==
    [name |-> "zaim_get_user_accounts", schema |-> GetUserAccountsInputSchema,
     kind |-> "list", method |-> "GET", path |-> "/v2/home/account", byRecord |-> FALSE,
     sends |-> "none", leading |-> <<>>, keys |-> <<>>, truthyOnly |-> FALSE,
     field |-> "accounts", flag |-> "success", payload |-> "accounts",
     failed |-> "Kouza no shutoku ni shippai shimashita: ",
     invalid |-> "Kouza no shutoku ni shippai shimashita: mukou na resuponsu keishiki",
     succeeded |-> "-ken no kouza wo shutoku shimashita"]

getDefaultCategoriesByModeTool ==
    [name |-> "zaim_get_default_categories", schema |-> GetDefaultCategoriesByModeInputSchema,
     kind |-> "list", method |-> "GET", path |-> "/v2/category", byRecord |-> FALSE,
     sends |-> "query", leading |-> <<>>, keys |-> <<"mode">>, truthyOnly |-> FALSE,
     field |-> "categories", flag |-> "success", payload |-> "categories",
     failed |-> "Deforuto kategori no shutoku ni shippai shimashita: ",
     invalid |-> "Deforuto kategori no shutoku ni shippai shimashita: mukou na resuponsu keishiki",
     succeeded |-> "-ken no deforuto kategori wo shutoku shimashita"]

getDefaultGenresByModeTool ==
    [name |-> "zaim_get_default_genres", schema |-> GetDefaultGenresByModeInputSchema,
     kind |-> "list", method |-> "GET", path |-> "/v2/genre", byRecord |-> FALSE,
     sends |-> "query", leading |-> <<>>, keys |-> <<"mode">>, truthyOnly |-> FALSE,
     field |-> "genres", flag |-> "success", payload |-> "genres",
     failed |-> "Deforuto janru no shutoku ni shippai shimashita: ",
     invalid |-> "Deforuto janru no shutoku ni shippai shimashita: mukou na resuponsu keishiki",
     succeeded |-> "-ken no deforuto janru wo shutoku shimashita"]

getCurrenciesTool ==
    [name |-> "zaim_get_currencies", schema |-> GetCurrenciesInputSchema,
     kind |-> "list", method |-> "GET", path |-> "/v2/currency", byRecord |-> FALSE,
     sends |-> "none", leading |-> <<>>, keys |-> <<>>, truthyOnly |-> FALSE,
     field |-> "currencies", flag |-> "success", payload |-> "currencies",
     failed |-> "Tsuuka no shutoku ni shippai shimashita: ",
     invalid |-> "Tsuuka no shutoku ni shippai shimashita: mukou na resuponsu keishiki",
     succeeded |-> "-ken no tsuuka wo shutoku shimashita"]

\* the tool functions executeTool dispatches to, in the order of its cases
DispatchedTools ==
    <<checkAuthStatusTool, getUserInfoTool, getMoneyRecordsTool, createPaymentTool,
      createIncomeTool, createTransferTool, updateMoneyRecordTool, deleteMoneyRecordTool,
      getUserCategoriesTool, getUserGenresTool, getUserAccountsTool,
      getDefaultCategoriesByModeTool, getDefaultGenresByModeTool, getCurrenciesTool>>

ToolNames == {DispatchedTools[i].name : i \in 1..Len(DispatchedTools)}

ToolNamed(name) ==
    DispatchedTools[CHOOSE i \in 1..Len(DispatchedTools) : DispatchedTools[i].name = name]

\* JavaScript truthiness of a value
Truthy(value) ==
    IF value.t \in {"undefined", "null"} THEN FALSE
    ELSE IF "v" \notin DOMAIN value THEN TRUE
    ELSE IF value.t = "number" THEN value.v # 0
    ELSE IF value.t = "string" THEN value.v # ""
    ELSE value.v

\* a JSON array as an object of its indices
JsonList(items) == [t |-> "array", fields |-> [i \in 1..Len(items) |-> <<ToString(i - 1), items[i]>>]]

\* object[name], undefined when there is no such property
FieldOf(object, name) ==
    IF object.t = "object" /\ HasKey(object.fields, name) THEN Lookup(object.fields, name)
    ELSE Undefined

\* the fields of the input a tool copies into its query or its body
CopiedMarked(tool, input) ==
    [i \in 1..Len(tool.keys) |->
        IF /\ HasKey(input, tool.keys[i])
           /\ (tool.truthyOnly => Truthy(Lookup(input, tool.keys[i])))
        THEN <<tool.keys[i], <<Lookup(input, tool.keys[i])>> >>
        ELSE <<tool.keys[i], <<>> >>]

Copied(tool, input) ==
    Unmarked(SelectSeq(CopiedMarked(tool, input), LAMBDA pair : pair[2] # <<>>))

\* the client call of a tool function: client.get / post / put / delete
ToolRequest(tool, input) ==
    [method   |-> tool.method,
     endpoint |-> IF tool.byRecord
                  THEN tool.path \o StringOf(Lookup(input, "mode")) \o "/"
                           \o StringOf(Lookup(input, "id"))
                  ELSE tool.path,
     data     |-> IF tool.sends = "body" THEN <<tool.leading \o Copied(tool, input)>> ELSE <<>>,
     query    |-> IF tool.sends = "query" THEN <<Copied(tool, input)>> ELSE <<>>]

ToolOutput(tool, flag, payload, count, message) ==
    [flagName |-> tool.flag, flag |-> flag, payloadName |-> tool.payload, payload |-> payload,
     count |-> count, message |-> message]

\* the result a tool returns when it has nothing to show
Failure(tool, message) ==
    IF tool.kind = "list" THEN ToolOutput(tool, FALSE, JsonArray, <<0>>, message)
    ELSE ToolOutput(tool, FALSE, JsonNull, <<>>, message)

\* error instanceof Error ? error.message : <unknown error>
CaughtMessage(error) == IF error.isError THEN error.message ELSE "Fumei na eraa"

\* a catch block that reports the invalid-response message whatever was raised
ToolCatch_Generic(tool, error) == Failure(tool, tool.invalid)

\* the catch block of a tool function
ToolCatch(tool, error) == Failure(tool, tool.failed \o CaughtMessage(error))

InvalidUserData == "Ninshou ni shippai shimashita: mukou na yuuzaa deeta"

\* the user of checkAuthStatusTool: id, login || '' and name of response.me
AuthUser(userData) ==
    JsonObject(<< <<"id", FieldOf(userData, "id")>>,
                  <<"login", IF Truthy(FieldOf(userData, "login"))
                             THEN FieldOf(userData, "login") ELSE Str("")>>,
                  <<"name", FieldOf(userData, "name")>> >>)

UserInfoKeys ==
    <<"id", "login", "name", "profile_image_url", "input_count", "repeat_count", "day">>

\* the user of getUserInfoTool: the fields of response.me that are defined
UserInfo(userData) ==
    JsonObject(SelectSeq([i \in 1..Len(UserInfoKeys) |->
                             <<UserInfoKeys[i], FieldOf(userData, UserInfoKeys[i])>>],
                         LAMBDA pair : pair[2].t # "undefined"))

\* Array.isArray(response.money) ? response.money[0] : response.money
FirstOrItself(value) ==
    IF value.t = "array"
    THEN IF value.fields = <<>> THEN Undefined ELSE value.fields[1][2]
    ELSE value

\* a check of the response that accepts any truthy value under the field
HasExpectedForm_AnyTruthyField(tool, response) ==
    /\ Truthy(response)
    /\ response.t \in {"object", "array"}
    /\ Truthy(FieldOf(response, tool.field))

\* the response has the form the tool looks for
HasExpectedForm(tool, response) ==
    /\ Truthy(response)
    /\ response.t \in {"object", "array"}
    /\ IF tool.kind = "list" THEN FieldOf(response, tool.field).t = "array"
       ELSE Truthy(FieldOf(response, tool.field))

\* what a tool makes of the response body the client returned
Interpreted(tool, response, found) ==
    IF ~HasExpectedForm(tool, response) THEN Failure(tool, tool.invalid)
    ELSE IF tool.kind = "auth"
    THEN IF ~Truthy(FieldOf(found, "id")) \/ ~Truthy(FieldOf(found, "name"))
         THEN Failure(tool, InvalidUserData)
         ELSE ToolOutput(tool, TRUE, AuthUser(found), <<>>, tool.succeeded)
    ELSE IF tool.kind = "user"
    THEN ToolOutput(tool, TRUE, UserInfo(found), <<>>, tool.succeeded)
    ELSE IF tool.kind = "list"
    THEN ToolOutput(tool, TRUE, found, <<Len(found.fields)>>,
                    ToString(Len(found.fields)) \o tool.succeeded)
    ELSE IF tool.kind = "record"
    THEN ToolOutput(tool, TRUE, FirstOrItself(found), <<>>, tool.succeeded)
    ELSE ToolOutput(tool, TRUE, found, <<>>, tool.succeeded)

\* a tool function from the point where its client call has ended
ToolReturn(tool, outcome) ==
    IF outcome.kind = "throw" THEN ToolCatch(tool, outcome)
    ELSE Interpreted(tool, outcome.value[1], FieldOf(outcome.value[1], tool.field))

(***************************************************************************)
(* ToolHandler: executeTool                                                *)
(***************************************************************************)
\* new McpError(ErrorCode.<code>, message)
McpError(code, message) ==
    [kind |-> "throw", value |-> <<>>, isError |-> TRUE, name |-> "McpError", code |-> code,
     message |-> message]

\* args || {}
OrEmptyObject(args) == IF Truthy(args) THEN args ELSE JsonObject(<<>>)

InvalidParams(toolName, error) ==
    McpError("InvalidParams",
             "Invalid parameters for " \o toolName \o ": " \o CaughtMessage(error))

Rewrapped(parsed, toolName) ==
    IF parsed.kind = "throw" THEN InvalidParams(toolName, parsed) ELSE parsed

validateAndParseInput(args, schema, toolName) ==
    Rewrapped(Parse(schema, OrEmptyObject(args)), toolName)

\* the first statement of a case of executeTool: the case of
\* zaim_get_money_records calls the schema itself
ParsedBy(tool, args) ==
    IF tool.name = "zaim_get_money_records" THEN Parse(tool.schema, OrEmptyObject(args))
    ELSE validateAndParseInput(args, tool.schema, tool.name)

\* a default case whose message leaves the name out
UnknownTool_Unnamed(name) == McpError("MethodNotFound", "Unknown tool")

\* the default case
UnknownTool(name) == McpError("MethodNotFound", "Unknown tool: " \o name)

\* formatResponse: one text content; stringified stands for
\* JSON.stringify(result, null, 2)
formatResponse(result) == [content |-> << [type |-> "text", stringified |-> result] >>]

\* an executeTool call: what it was given, whether the tool function was
\* entered (ran) and with which input, what loading the credentials (loaded)
\* and building the client (built) gave, the result of the tool function, and
\* how executeTool ended (<<>> while it awaits the client)
Invocation(name, args, ran, input, loaded, built, result, outcome) ==
    [name |-> name, args |-> args, ran |-> ran, input |-> input, loaded |-> loaded,
     built |-> built, result |-> result, outcome |-> outcome]

NotRun(name, args, error) == Invocation(name, args, FALSE, <<>>, <<>>, <<>>, <<>>, <<error>>)

Ended(invocation, result) ==
    [invocation EXCEPT !.result = <<result>>, !.outcome = <<Returned(formatResponse(result))>>]

\* the client call of a tool, up to its await of fetch
ToolCall(config, request, r, url, requestParams) ==
    InFlight(request.method, request.endpoint, request.data, request.query, now, <<r, r>>,
             url, requestParams,
             AuthHeaderParts(config, request.method, url, requestParams, r, r, now))

\* a tool function with its input, up to the await of its client call
RunTool(tool, args, input, loaded, built, request, r) ==
    /\ attempted' = IF loaded.kind = "throw" THEN attempted ELSE loaded.value
    /\ lastError' = IF loaded.kind = "throw" THEN lastError
                    ELSE validateConfig(loaded.value[1])
    /\ client' = IF built.kind = "throw" THEN client ELSE built.value
    /\ IF built.kind = "throw"
       THEN /\ invoked' = <<Ended(Invocation(tool.name, args, TRUE, <<input>>, <<loaded>>,
                                             <<built>>, <<>>, <<>>),
                                  ToolCatch(tool, built))>>
            /\ calls' = calls
       ELSE /\ invoked' = <<Invocation(tool.name, args, TRUE, <<input>>, <<loaded>>,
                                       <<built>>, <<>>, <<>>)>>
            /\ calls' = Append(calls,
                            ToolCall(built.value[1], request, r,
                                     buildUrl(request.endpoint, request.query),
                                     buildRequestParameters(request.data)))

Dispatched(tool, args, parsed, r) ==
    IF parsed.kind = "throw"
    THEN /\ invoked' = <<NotRun(tool.name, args, parsed)>>
         /\ UNCHANGED <<client, lastError, attempted, calls>>
    ELSE RunTool(tool, args, parsed.value[1], getOAuthConfig(env), createZaimApiClient(env),
                 ToolRequest(tool, parsed.value[1]), r)

\* executeTool(name, args), up to the await of the client call if it gets there
ExecuteTool(name, args, r) ==
    /\ invoked = <<>>
    /\ IF name \in ToolNames
       THEN Dispatched(ToolNamed(name), args, ParsedBy(ToolNamed(name), args), r)
       ELSE /\ invoked' = <<NotRun(name, args, UnknownTool(name))>>
            /\ UNCHANGED <<client, lastError, attempted, calls>>
    /\ UNCHANGED <<now, signerVars, env>>

\* fetch settles the client call of the tool: request ends, the tool function
\* returns its result and executeTool formats it
ToolSettle(i, settled) ==
    /\ invoked # <<>>
    /\ invoked[1].outcome = <<>>
    /\ i \in 1..Len(calls)
    /\ calls[i].settled = <<>>
    /\ calls' = [calls EXCEPT ![i].settled = <<settled>>,
                              ![i].outcome = <<RequestOutcome(settled)>>]
    /\ invoked' = <<Ended(invoked[1],
                          ToolReturn(ToolNamed(invoked[1].name), RequestOutcome(settled)))>>
    /\ UNCHANGED <<client, lastError, attempted, now, signerVars, env>>

ToolRespond(i, response) ==
    ToolSettle(i, [ok |-> TRUE, response |-> response, error |-> ThrownNonError])

ToolReject(i, error) ==
    ToolSettle(i, [ok |-> FALSE, response |-> [status |-> 0, body |-> JsonInvalid], error |-> error])

(***************************************************************************)
(* ToolSpec: one executeTool call, under every environment, for every      *)
(* tool name and every shape of arguments and of response.                 *)
(***************************************************************************)
\* per variable: unset, or one of two values
EnvValues ==
    {<<>>, <<"">>, <<" ck ">>} \X {<<>>, <<" ">>, <<"c&s">>}
        \X {<<>>, <<"">>, <<"a t">>} \X {<<>>, <<" ">>, <<" ts">>}

EnvOf(values) ==
    Unmarked(SelectSeq([i \in 1..Len(REQUIRED_ENV_VARS) |-> <<REQUIRED_ENV_VARS[i], values[i]>>],
                       LAMBDA pair : pair[2] # <<>>))

Environments == {EnvOf(values) : values \in EnvValues}

UnknownNames == {"unknown_tool", "example_tool", "", "ZAIM_CREATE_PAYMENT"}

PaymentWithoutGenre ==
    << <<"amount", Num(1000)>>, <<"date", Str("2024-01-01")>>, <<"category_id", Num(101)>> >>

\* the shapes of arguments tried, one after the other
Arguments ==
    <<Undefined,
     JsonNull,
     JsonString,
     JsonObject(<<>>),
     JsonObject(<< <<"invalid", Str("data")>> >>),
     JsonObject(PaymentWithoutGenre),
     JsonObject(PaymentWithoutGenre \o << <<"genre_id", Num(10101)>>, <<"place", Str("a b")>> >>),
     JsonObject(<< <<"amount", Str("not a number")>>, <<"date", Str("2024-01-01")>>,
                   <<"category_id", Num(101)>> >>),
     JsonObject(<< <<"amount", Num(0)>>, <<"date", Str("2024-01-01")>>,
                   <<"category_id", Num(101)>> >>),
     JsonObject(<< <<"amount", Num(500)>>, <<"date", Str("2024-01-01")>>,
                   <<"from_account_id", Num(1)>>, <<"to_account_id", Num(2)>> >>),
     JsonObject(<< <<"id", Num(7)>>, <<"mode", Str("payment")>> >>),
     JsonObject(<< <<"id", Num(7)>>, <<"mode", Str("payment")>>, <<"genre_id", Num(10101)>>,
                   <<"amount", Num(1200)>> >>),
     JsonObject(<< <<"id", Num(7)>>, <<"mode", Str("income")>>, <<"amount", Num(1200)>> >>),
     JsonObject(<< <<"id", Num(7)>>, <<"mode", Str("loan")>> >>),
     JsonObject(<< <<"mode", Str("payment")>> >>),
     JsonObject(<< <<"mode", Str("transfer")>>, <<"category_id", Num(0)>>,
                   <<"limit", Num(5)>> >>),
     JsonObject(<< <<"limit", Str("5")>> >>)>>

MoneyRecord == JsonObject(<< <<"id", Num(7)>>, <<"amount", Num(1200)>> >>)

\* a body with every field a tool looks for
FullBody ==
    JsonObject(<< <<"me", JsonObject(<< <<"id", Num(1)>>, <<"name", Str("n")>>,
                                        <<"day", Num(3)>> >>)>>,
                  <<"money", JsonList(<<MoneyRecord>>)>>,
                  <<"categories", JsonList(<<JsonObject(<<>>), JsonObject(<<>>)>>)>>,
                  <<"genres", JsonList(<<JsonObject(<<>>)>>)>>,
                  <<"accounts", JsonList(<<>>)>>,
                  <<"currencies", JsonList(<<JsonObject(<<>>)>>)>> >>)

ToolBodies ==
    {FullBody,
     JsonObject(<<>>),
     JsonObject(<< <<"me", JsonObject(<< <<"id", Num(0)>>, <<"name", Str("n")>> >>)>>,
                   <<"money", MoneyRecord>>,
                   <<"categories", JsonObject(<<>>)>> >>),
     JsonObject(<< <<"money", JsonList(<<>>)>> >>),
     JsonObject(<< <<"error", "Unauthorized">> >>),
     JsonNull,
     JsonInvalid}

ToolResponses == [status : {200, 401}, body : ToolBodies]

ToolInit ==
    /\ ClientIdle
    /\ signerIn = <<>>
    /\ signerOut = <<>>
    /\ env \in Environments
    /\ invoked = <<>>

ToolNext ==
    \/ /\ invoked = <<>>
       /\ \E name \in ToolNames \cup UnknownNames, k \in 1..Len(Arguments) :
             ExecuteTool(name, Arguments[k], "0.k3x9")
    \/ \E i \in 1..Len(calls) :
          \/ \E response \in ToolResponses : ToolRespond(i, response)
          \/ \E error \in Rejections : ToolReject(i, error)

ToolSpec == ToolInit /\ [][ToolNext]_vars

(***************************************************************************)
(* Properties of the signer                                                *)
(***************************************************************************)
Count(c, s) == Cardinality({i \in 1..Len(s) : Ch(s, i) = c})

Rfc3986Unreserved == AlnumSet \cup CharsOf("-._~")

\* C7: normalize percent-encodes every character of every key and value
\* except letters, digits, '-', '.', '_' and '~': the normalized string holds
\* only those characters, the escapes' '%', and the one '=' per pair and the
\* '&' between pairs that normalize itself adds.
C7_OnlyUnreservedUnescaped ==
    signerOut # <<>> =>
        LET n == signerOut[1].normalized
            k == Len(signerIn.parameters)
        IN  /\ CharsOf(n) \subseteq Rfc3986Unreserved \cup {"%", "=", "&"}
            /\ Count("=", n) = k
            /\ Count("&", n) = IF k = 0 THEN 0 ELSE k - 1

Reordered(parameters, f) == [i \in 1..Len(parameters) |-> parameters[f[i]]]

\* C8: two parameter maps holding the same key/value pairs inserted in
\* different orders yield the identical normalized string and the identical
\* signature.
C8_InsertionOrderIrrelevant ==
    signerOut # <<>> =>
        \A f \in Permutations(1..Len(signerIn.parameters)) :
            LET q == Reordered(signerIn.parameters, f)
            IN  /\ normalizeParameters(q) = signerOut[1].normalized
                /\ generateOAuthSignature(signerIn.method, signerIn.url, q,
                       signerIn.secrets[1], signerIn.secrets[2])
                   = signerOut[1].signature

\* two pairs signed that were inserted in the reverse of their sorted order
C8_Witness ==
    /\ signerOut # <<>>
    /\ Len(signerIn.parameters) = 2
    /\ signerIn.parameters[1][1] = "c d"
    /\ signerIn.parameters[2][1] = "a"
    /\ Ch(signerOut[1].normalized, 1) = "a"

SignatureOf(in) ==
    generateOAuthSignature(in.method, in.url, in.parameters, in.secrets[1], in.secrets[2])

WithValue(parameters, i, v) ==
    [j \in 1..Len(parameters) |-> IF j = i THEN <<parameters[j][1], v>> ELSE parameters[j]]

UrlOrValueChangeChangesSignature ==
    /\ \A u \in SignerUrls \ {signerIn.url} :
           SignatureOf([signerIn EXCEPT !.url = u]) # signerOut[1].signature
    /\ \A i \in 1..Len(signerIn.parameters) :
           \A v \in SignerValues \ {signerIn.parameters[i][2]} :
               SignatureOf([signerIn EXCEPT
                               !.parameters = WithValue(signerIn.parameters, i, v)])
               # signerOut[1].signature

\* C9 as stated: changing the method, the URL, or any single parameter value
\* while every other input of sign stays fixed changes the signature.
C9_AnyChangeChangesSignature ==
    signerOut # <<>> =>
        /\ \A m \in SignerMethods \ {signerIn.method} :
               SignatureOf([signerIn EXCEPT !.method = m]) # signerOut[1].signature
        /\ UrlOrValueChangeChangesSignature

\* C9 amended: changing the method to one that differs from it in more than
\* letter case, the URL, or any single parameter value changes the signature.
C9_ChangeBeyondCaseChangesSignature ==
    signerOut # <<>> =>
        /\ \A m \in SignerMethods :
               toUpperCase(m) # toUpperCase(signerIn.method) =>
                   SignatureOf([signerIn EXCEPT !.method = m]) # signerOut[1].signature
        /\ UrlOrValueChangeChangesSignature

\* a lower-case method was signed together with a parameter
C9_Witness ==
    /\ signerOut # <<>>
    /\ signerIn.method = "get"
    /\ Len(signerIn.parameters) >= 1

(***************************************************************************)
(* Properties of the client                                                *)
(***************************************************************************)
AuthorizationOf(call) == Lookup(call.options.headers, "Authorization")

\* the key="value" parts of an Authorization header, after its scheme
HeaderParts(header) == Split(SubSeq(header, 7, Len(header)), ", ")

\* one part read back: its key, and its value unquoted and percent-decoded
HeaderEntryAt(part, eq) ==
    <<SubSeq(part, 1, eq - 1), PercentDecode(SubSeq(part, eq + 2, Len(part) - 1))>>

HeaderEntry(part) == HeaderEntryAt(part, IndexOf("=", part))

EntriesOf(parts) == [i \in 1..Len(parts) |-> HeaderEntry(parts[i])]

HeaderEntries(header) == EntriesOf(HeaderParts(header))

OAuthHeaderNames ==
    {"oauth_consumer_key", "oauth_nonce", "oauth_signature_method", "oauth_timestamp",
     "oauth_token", "oauth_version", "oauth_signature"}

\* the names of the body and query parameters the caller passed
PassedNames(call) ==
    (IF call.data = <<>> THEN {} ELSE KeysOf(call.data[1]))
    \cup (IF call.query = <<>> THEN {} ELSE KeysOf(call.query[1]))

NoOAuthNamePassed(call) == \A k \in PassedNames(call) : ~StartsWith(k, "oauth_")

\* the pairs a server reads from the transmitted body and URL
TransmittedBodyPairs(call) ==
    IF call.options.body = <<>> THEN <<>> ELSE URLSearchParamsParse(call.options.body[1])

QueryPairsOf(pieces) == IF Len(pieces) >= 2 THEN URLSearchParamsParse(pieces[2]) ELSE <<>>

TransmittedQueryPairs(call) == QueryPairsOf(Split(call.url, "?"))

SixOAuthPairs(entries) == SelectSeq(entries, LAMBDA e : e[1] # "oauth_signature")

Coerced(params) == IF params = <<>> THEN <<>> ELSE Stringified(params[1])

\* the signature among the header entries of a call is the signature of what
\* was transmitted, and of what the caller passed
SignatureCovers(config, call, entries, queryPairs) ==
    /\ Lookup(entries, "oauth_signature")
       = generateOAuthSignature(call.options.method, Split(call.url, "?")[1],
             Spread(Spread(SixOAuthPairs(entries), TransmittedBodyPairs(call)), queryPairs),
             config.consumerSecret, <<config.accessTokenSecret>>)
    /\ queryPairs = Coerced(call.query)
    /\ Lookup(entries, "oauth_signature")
       = generateOAuthSignature(call.method, baseUrl \o call.endpoint,
             Spread(Spread(SixOAuthPairs(entries), Coerced(call.data)), Coerced(call.query)),
             config.consumerSecret, <<config.accessTokenSecret>>)

\* C1: when no body or query parameter name is an oauth_* name, the
\* oauth_signature of the header is the signature of the transmitted method,
\* the transmitted URL without its query string, and the six oauth_* values of
\* the header united with the transmitted body and query pairs; the query
\* pairs signed are the string-coerced pairs the caller passed, so the same
\* signature results from threading the caller's maps to the signer.
C1_SignatureCoversWhatIsSent ==
    \A i \in 1..Len(calls) :
        NoOAuthNamePassed(calls[i]) =>
            SignatureCovers(client[1], calls[i], HeaderEntries(AuthorizationOf(calls[i])),
                            TransmittedQueryPairs(calls[i]))

\* a GET was sent whose query holds a space, '&', '=' and '+'
C1_Witness ==
    \E i \in 1..Len(calls) :
        /\ calls[i].method = "GET"
        /\ calls[i].query = <<SpecialParams>>
        /\ Includes(calls[i].url, "?a+b=x%26y%3Dz%2B1&B=true")

\* the parameters call i put in its Authorization header
Carried(i) == calls[i].headerParams

\* C2 as stated, granted its randomness: two calls whose nonces came out
\* non-empty and different also carry non-empty oauth_timestamp and
\* oauth_signature values that differ between the two calls.
C2_ValuesDifferAcrossCalls ==
    \A i, j \in 1..Len(calls) :
        (/\ i < j
         /\ Lookup(Carried(i), "oauth_nonce") # ""
         /\ Lookup(Carried(j), "oauth_nonce") # ""
         /\ Lookup(Carried(i), "oauth_nonce") # Lookup(Carried(j), "oauth_nonce"))
        => /\ Lookup(Carried(i), "oauth_timestamp") # ""
           /\ Lookup(Carried(j), "oauth_timestamp") # ""
           /\ Lookup(Carried(i), "oauth_timestamp") # Lookup(Carried(j), "oauth_timestamp")
           /\ Lookup(Carried(i), "oauth_signature") # Lookup(Carried(j), "oauth_signature")

NonceAndTimestamp(entries) ==
    <<Lookup(entries, "oauth_nonce"), Lookup(entries, "oauth_timestamp")>>

\* C2 amended: every call carries non-empty oauth_timestamp and
\* oauth_signature values; two calls carry the same oauth_timestamp exactly
\* when they are issued within the same second; and two calls that pass no
\* oauth_* parameter name carry different signatures whenever their
\* nonce+timestamp pairs differ.
C2_TimestampIsTheSecond ==
    /\ \A i \in 1..Len(calls) :
           /\ Lookup(Carried(i), "oauth_timestamp") # ""
           /\ Lookup(Carried(i), "oauth_signature") # ""
    /\ \A i, j \in 1..Len(calls) :
           i < j =>
               /\ (Lookup(Carried(i), "oauth_timestamp") = Lookup(Carried(j), "oauth_timestamp"))
                  <=> (calls[i].issuedAt = calls[j].issuedAt)
               /\ (/\ NoOAuthNamePassed(calls[i])
                   /\ NoOAuthNamePassed(calls[j])
                   /\ NonceAndTimestamp(Carried(i)) # NonceAndTimestamp(Carried(j)))
                  => Lookup(Carried(i), "oauth_signature") # Lookup(Carried(j), "oauth_signature")

\* two calls with the same logical parameters were issued within the same
\* second, with different non-empty nonces
C2_Witness ==
    /\ Len(calls) = 2
    /\ calls[1].method = calls[2].method
    /\ calls[1].url = calls[2].url
    /\ calls[1].options.body = calls[2].options.body
    /\ NoOAuthNamePassed(calls[1])
    /\ calls[1].issuedAt = calls[2].issuedAt
    /\ Lookup(Carried(1), "oauth_nonce") # Lookup(Carried(2), "oauth_nonce")
    /\ Lookup(Carried(1), "oauth_nonce") # ""
    /\ Lookup(Carried(2), "oauth_nonce") # ""
    /\ Lookup(Carried(1), "oauth_timestamp") = Lookup(Carried(2), "oauth_timestamp")

Settled(call) == call.settled # <<>>

\* C3: every received response whose status is outside the success range
\* makes the call raise an API error, 'Zaim API Error: <status> - ...',
\* whatever the shape of its body.
C3_NonSuccessRaisesApiError ==
    \A i \in 1..Len(calls) :
        (/\ Settled(calls[i])
         /\ calls[i].settled[1].ok
         /\ ~IsOk(calls[i].settled[1].response.status))
        => /\ calls[i].outcome[1].kind = "throw"
           /\ StartsWith(calls[i].outcome[1].message,
                  "Zaim API Error: " \o ToString(calls[i].settled[1].response.status) \o " - ")

\* C4: every transport rejection with message m makes the call raise the
\* network error 'Network error occurred: ' followed by m, never an API error.
C4_RejectionRaisesNetworkError ==
    \A i \in 1..Len(calls) :
        (/\ Settled(calls[i])
         /\ ~calls[i].settled[1].ok
         /\ calls[i].settled[1].error.isError)
        => /\ calls[i].outcome[1].kind = "throw"
           /\ calls[i].outcome[1].message
                  = "Network error occurred: " \o calls[i].settled[1].error.message
           /\ ~StartsWith(calls[i].outcome[1].message, "Zaim API Error")

ConfigFields == {"consumerKey", "consumerSecret", "accessToken", "accessTokenSecret"}

\* C5: constructing a client from a credential set with an empty string
\* raises a configuration error naming a field that is empty; no client
\* results, and no call is made.
C5_EmptyCredentialRejected ==
    (attempted # <<>> /\ \E f \in ConfigFields : attempted[1][f] = "")
    => /\ \E f \in ConfigFields : attempted[1][f] = "" /\ lastError = f \o " is required"
       /\ client = <<>>
       /\ calls = <<>>

\* a credential set whose only empty string is the access token was refused
C5_Witness ==
    /\ attempted # <<>>
    /\ attempted[1].accessToken = ""
    /\ attempted[1].consumerKey # ""
    /\ attempted[1].consumerSecret # ""
    /\ attempted[1].accessTokenSecret # ""
    /\ lastError = "accessToken is required"

\* C6: every client that exists holds four credential strings that are
\* non-empty after trimming.
C6_CredentialsNonBlank ==
    client # <<>> => \A f \in ConfigFields : Trim(client[1][f]) # ""

\* the shape of the Authorization header of a call, given its parts and the
\* entries read back from them
HeaderShaped(config, call, header, parts, entries) ==
    /\ StartsWith(header, "OAuth ")
    /\ Len(parts) = 7
    /\ entries = call.headerParams
    /\ KeysOf(entries) = OAuthHeaderNames
    /\ \A k \in 1..Len(parts) :
           parts[k] = entries[k][1] \o "=\"" \o encodeURIComponent(entries[k][2]) \o "\""
    /\ Lookup(entries, "oauth_signature_method") = "HMAC-SHA1"
    /\ Lookup(entries, "oauth_version") = "1.0"
    /\ Lookup(entries, "oauth_consumer_key") = config.consumerKey
    /\ Lookup(entries, "oauth_token") = config.accessToken

\* C10: the Authorization header of every request starts with 'OAuth ' and
\* lists exactly the seven oauth_* parameters, each once, as
\* key="percent-encoded value", with the fixed method and version and the
\* consumer key and access token of the client, and no other parameter.
C10_HeaderShape ==
    \A i \in 1..Len(calls) :
        HeaderShaped(client[1], calls[i], AuthorizationOf(calls[i]),
                     HeaderParts(AuthorizationOf(calls[i])),
                     HeaderEntries(AuthorizationOf(calls[i])))

\* a request with a body parameter named like an oauth_* parameter, from a
\* client whose consumer key needs escaping
C10_Witness ==
    \E i \in 1..Len(calls) :
        /\ calls[i].data = <<OAuthNamedParams>>
        /\ client[1].consumerKey = " "
        /\ Includes(AuthorizationOf(calls[i]), "oauth_consumer_key=\"%20\"")

HasBody(call) == call.options.body # <<>>

HasFormContentType(call) ==
    /\ HasKey(call.options.headers, "Content-Type")
    /\ Lookup(call.options.headers, "Content-Type") = "application/x-www-form-urlencoded"

\* the body of a call encodes the string-coerced body parameters, all of them signed
BodyIsWhatWasSigned(call, bodyPairs) ==
    /\ bodyPairs = Coerced(call.data)
    /\ \A k \in 1..Len(bodyPairs) :
           /\ HasKey(call.signedParams, bodyPairs[k][1])
           /\ Lookup(call.signedParams, bodyPairs[k][1]) = bodyPairs[k][2]

\* C11 as stated: a request carries a form-encoded body and the form
\* Content-Type header if and only if its method is POST or PUT, whether or
\* not the caller passed a body argument; the body encodes the signed,
\* string-coerced body parameters.
C11_BodyIffPostOrPut ==
    \A i \in 1..Len(calls) :
        /\ HasBody(calls[i]) <=> calls[i].method \in {"POST", "PUT"}
        /\ HasFormContentType(calls[i]) <=> calls[i].method \in {"POST", "PUT"}
        /\ HasBody(calls[i]) => BodyIsWhatWasSigned(calls[i], TransmittedBodyPairs(calls[i]))

\* C11 amended: a request carries a form-encoded body and the form
\* Content-Type header if and only if its method is POST or PUT and the
\* caller passed a body argument (an empty map included); the body encodes
\* exactly the string-coerced body parameters, which were all signed; every
\* other request carries neither a body nor a Content-Type header.
C11_BodyIffPostOrPutWithData ==
    \A i \in 1..Len(calls) :
        /\ HasBody(calls[i]) <=> (calls[i].method \in {"POST", "PUT"} /\ calls[i].data # <<>>)
        /\ HasFormContentType(calls[i]) <=> HasBody(calls[i])
        /\ HasKey(calls[i].options.headers, "Content-Type") => HasBody(calls[i])
        /\ HasBody(calls[i]) => BodyIsWhatWasSigned(calls[i], TransmittedBodyPairs(calls[i]))

\* a PUT was sent whose body holds a space, '&', '=' and '+', coerced and escaped
C11_Witness ==
    \E i \in 1..Len(calls) :
        /\ calls[i].method = "PUT"
        /\ calls[i].data = <<SpecialParams>>
        /\ calls[i].options.body = <<"a%20b=x%26y%3Dz%2B1&B=true">>

\* the calls that received a response, as opposed to a rejection
Received(call) == Settled(call) /\ call.settled[1].ok

\* C12: every received response with a success status makes the call return
\* the parsed body unchanged, or an empty object when the body cannot be
\* parsed; it never raises, whatever fields the body holds.
C12_SuccessReturnsBody ==
    \A i \in 1..Len(calls) :
        (Received(calls[i]) /\ IsOk(calls[i].settled[1].response.status))
        => /\ calls[i].outcome[1].kind = "return"
           /\ calls[i].outcome[1].value
                  = <<IF calls[i].settled[1].response.body = JsonInvalid
                      THEN JsonObject(<<>>)
                      ELSE calls[i].settled[1].response.body>>

\* a 299 response whose body holds both an error and a message field was returned
C12_Witness ==
    \E i \in 1..Len(calls) :
        /\ Received(calls[i])
        /\ calls[i].settled[1].response.status = 299
        /\ FieldOrEmpty(calls[i].settled[1].response.body, "error") = "Bad Request"
        /\ FieldOrEmpty(calls[i].settled[1].response.body, "message") = "Invalid amount"
        /\ calls[i].outcome[1].kind = "return"

\* the calls that ended in an API error raised for a received response
RaisedApiError(call) ==
    /\ Received(call)
    /\ call.outcome[1].kind = "throw"
    /\ StartsWith(call.outcome[1].message, "Zaim API Error: ")

ApiErrorMessage(status, m) == "Zaim API Error: " \o ToString(status) \o " - " \o m

HasField(body, name) == body.t = "object" /\ HasKey(body.fields, name)

\* C13 as stated: the message of an API error ends with the body's message
\* field if it has one, otherwise with its error field if it has one,
\* otherwise with 'Unknown error'.
C13_MessageFieldIfPresent ==
    \A i \in 1..Len(calls) :
        RaisedApiError(calls[i]) =>
            calls[i].outcome[1].message
                = ApiErrorMessage(calls[i].settled[1].response.status,
                      IF HasField(calls[i].settled[1].response.body, "message")
                      THEN Lookup(calls[i].settled[1].response.body.fields, "message")
                      ELSE IF HasField(calls[i].settled[1].response.body, "error")
                      THEN Lookup(calls[i].settled[1].response.body.fields, "error")
                      ELSE "Unknown error")

\* C13 amended: the message of an API error is 'Zaim API Error: <status> - <m>'
\* where m is the body's message field if it has a non-empty one, otherwise
\* its error field if it has a non-empty one, otherwise 'Unknown error' (also
\* when the body could not be parsed or is no object).
C13_NonEmptyMessageField ==
    \A i \in 1..Len(calls) :
        RaisedApiError(calls[i]) =>
            calls[i].outcome[1].message
                = ApiErrorMessage(calls[i].settled[1].response.status,
                      IF FieldOrEmpty(calls[i].settled[1].response.body, "message") # ""
                      THEN FieldOrEmpty(calls[i].settled[1].response.body, "message")
                      ELSE IF FieldOrEmpty(calls[i].settled[1].response.body, "error") # ""
                      THEN FieldOrEmpty(calls[i].settled[1].response.body, "error")
                      ELSE "Unknown error")

\* a 401 response holding both fields raised an API error with the message field
C13_Witness ==
    \E i \in 1..Len(calls) :
        /\ RaisedApiError(calls[i])
        /\ calls[i].settled[1].response.status = 401
        /\ FieldOrEmpty(calls[i].settled[1].response.body, "error") = "Bad Request"
        /\ calls[i].outcome[1].message = "Zaim API Error: 401 - Invalid amount"

(***************************************************************************)
(* Properties of the signing key and of the base string                    *)
(***************************************************************************)
\* the token secret handed to the signer, "" when it is absent
TokenSecretOrEmpty(secrets) == IF secrets[2] = <<>> THEN "" ELSE secrets[2][1]

SigningKeyShaped(secrets, key, halves) ==
    /\ Count("&", key) = 1
    /\ Len(halves) = 2
    /\ halves[1] = encodeURIComponent(secrets[1])
    /\ halves[2] = encodeURIComponent(TokenSecretOrEmpty(secrets))
    /\ PercentDecode(halves[1]) = secrets[1]
    /\ PercentDecode(halves[2]) = TokenSecretOrEmpty(secrets)
    /\ TokenSecretOrEmpty(secrets) = "" => key = encodeURIComponent(secrets[1]) \o "&"

\* C14: the signing key is the percent-encoded consumer secret, '&', and the
\* percent-encoded token secret (nothing when it is absent or empty); it
\* holds exactly one literal '&', which separates the two secrets.
C14_SigningKeyShape ==
    signerOut # <<>> =>
        SigningKeyShaped(signerIn.secrets, signerOut[1].signingKey,
                         Split(signerOut[1].signingKey, "&"))

\* a key was built without a token secret, and one from secrets that hold '&'
C14_Witness ==
    /\ signerOut # <<>>
    /\ \/ signerIn.secrets[2] = <<>> /\ signerOut[1].signingKey = "cs&"
       \/ signerIn.secrets[1] = "c&s" /\ signerOut[1].signingKey = "c%26s&t%26%3Ds"

EscapedDelimiters == {"&", "=", ":", "/"}

BaseStringShaped(in, normalized, baseString, fields) ==
    /\ Count("&", baseString) = 2
    /\ Len(fields) = 3
    /\ fields[1] = toUpperCase(in.method)
    /\ fields[1] \in {"GET", "POST", "PUT", "DELETE"}
    /\ PercentDecode(fields[2]) = in.url
    /\ PercentDecode(fields[3]) = normalized
    /\ CharsOf(fields[2]) \cap EscapedDelimiters = {}
    /\ CharsOf(fields[3]) \cap EscapedDelimiters = {}

\* C15: the base string is the upper-cased method, the percent-encoded URL
\* and the percent-encoded normalized parameters joined by '&': three fields
\* separated by two literal '&', with every '&', '=', ':' and '/' of the URL
\* and of the parameter string escaped.
C15_BaseStringShape ==
    signerOut # <<>> =>
        BaseStringShaped(signerIn, signerOut[1].normalized, signerOut[1].baseString,
                         Split(signerOut[1].baseString, "&"))

\* a lower-case method was signed over two parameters, whose normalized
\* string holds '&' and '='
C15_Witness ==
    /\ signerOut # <<>>
    /\ signerIn.method = "get"
    /\ Len(signerIn.parameters) = 2
    /\ Count("&", signerOut[1].normalized) = 1
    /\ Count("=", signerOut[1].normalized) = 2

(***************************************************************************)
(* Properties of the tool layer                                            *)
(***************************************************************************)
\* executeTool has ended
Finished(invocation) == invocation.outcome # <<>>

\* what the tool function saw raised: by the loading of the credentials or
\* the construction of the client, or by its client call
RaisedInTool(invocation) ==
    IF invocation.built[1].kind = "throw" THEN <<invocation.built[1]>>
    ELSE IF calls # <<>> /\ calls[1].outcome # <<>> /\ calls[1].outcome[1].kind = "throw"
    THEN <<calls[1].outcome[1]>>
    ELSE <<>>

ReportsFailure(result, raised) ==
    /\ result.flagName \in {"success", "isAuthenticated"}
    /\ result.flag = FALSE
    /\ result.payload \in {JsonNull, JsonArray}
    /\ result.count \in {<<>>, <<0>>}
    /\ raised.message # ""
    /\ Includes(result.message, raised.message)

ToolReturnsResult(invocation) ==
    /\ invocation.outcome[1].kind = "return"
    /\ invocation.result # <<>>
    /\ invocation.outcome[1].value[1] = formatResponse(invocation.result[1])
    /\ invocation.result[1].flagName =
          (IF invocation.name = "zaim_check_auth_status" THEN "isAuthenticated" ELSE "success")
    /\ RaisedInTool(invocation) # <<>> =>
          ReportsFailure(invocation.result[1], RaisedInTool(invocation)[1])

\* C16: every tool call-site returns a result and never raises; when the
\* loading of the credentials or the client call raised, the result has its
\* success flag (isAuthenticated for the auth check) false, a null or empty
\* payload, and a message that contains the message of what was raised.
C16_ToolsReturnFailureResults ==
    \A i \in 1..Len(invoked) :
        (invoked[i].ran /\ Finished(invoked[i])) => ToolReturnsResult(invoked[i])

\* the delete tool reported an API error, and so did the auth check
C16_Witness ==
    /\ invoked # <<>>
    /\ invoked[1].name \in {"zaim_delete_money_record", "zaim_check_auth_status"}
    /\ invoked[1].result # <<>>
    /\ RaisedInTool(invoked[1]) # <<>>
    /\ RaisedInTool(invoked[1])[1].message = "Zaim API Error: 401 - Unauthorized"
    /\ invoked[1].result[1].flag = FALSE

FailsSchema(invocation) ==
    /\ invocation.name \in ToolNames
    /\ IssuesOf(ToolNamed(invocation.name).schema, OrEmptyObject(invocation.args)) # <<>>

NothingSent(invocation) ==
    /\ ~invocation.ran
    /\ invocation.result = <<>>
    /\ invocation.built = <<>>
    /\ client = <<>>
    /\ calls = <<>>

RaisedInvalidParams(invocation) ==
    /\ Finished(invocation)
    /\ invocation.outcome[1].kind = "throw"
    /\ invocation.outcome[1].name = "McpError"
    /\ invocation.outcome[1].code = "InvalidParams"
    /\ StartsWith(invocation.outcome[1].message, "Invalid parameters for " \o invocation.name)

\* C17: for every dispatched tool name, arguments that fail the input schema
\* of the tool make executeTool raise an invalid-parameters error whose
\* message begins 'Invalid parameters for <tool name>', before the tool
\* function runs: no client is created and no request is sent.
C17_InvalidArgumentsRaiseInvalidParams ==
    \A i \in 1..Len(invoked) :
        FailsSchema(invoked[i]) => (RaisedInvalidParams(invoked[i]) /\ NothingSent(invoked[i]))

\* C18: executeTool called with a name that is not dispatched raises a
\* method-not-found error with message 'Unknown tool: <name>', runs no tool
\* function and sends no request, whatever the arguments.
C18_UnknownToolRaisesMethodNotFound ==
    \A i \in 1..Len(invoked) :
        invoked[i].name \notin ToolNames =>
            /\ Finished(invoked[i])
            /\ invoked[i].outcome[1].kind = "throw"
            /\ invoked[i].outcome[1].name = "McpError"
            /\ invoked[i].outcome[1].code = "MethodNotFound"
            /\ invoked[i].outcome[1].message = "Unknown tool: " \o invoked[i].name
            /\ NothingSent(invoked[i])

\* example_tool was asked for with arguments that are an object with fields
C18_Witness ==
    /\ invoked # <<>>
    /\ invoked[1].name = "example_tool"
    /\ invoked[1].args = JsonObject(PaymentWithoutGenre)
    /\ invoked[1].outcome = <<McpError("MethodNotFound", "Unknown tool: example_tool")>>

\* unset, empty or made of spaces only
Blank(value) == value = <<>> \/ \A k \in 1..Len(value[1]) : Ch(value[1], k) = " "

MissingVars(environment) ==
    {k \in 1..Len(REQUIRED_ENV_VARS) : Blank(EnvVar(environment, REQUIRED_ENV_VARS[k]))}

\* trimmed is raw without the spaces at its ends
IsTrimOf(trimmed, raw) ==
    /\ trimmed # ""
    /\ Ch(trimmed, 1) # " "
    /\ Ch(trimmed, Len(trimmed)) # " "
    /\ \E a \in 0..Len(raw) :
          /\ a + Len(trimmed) <= Len(raw)
          /\ SubSeq(raw, a + 1, a + Len(trimmed)) = trimmed
          /\ \A k \in 1..Len(raw) : (k <= a \/ k > a + Len(trimmed)) => Ch(raw, k) = " "

ConfigIsTrimmedEnv(config, environment) ==
    /\ IsTrimOf(config.consumerKey, EnvVar(environment, "ZAIM_CONSUMER_KEY")[1])
    /\ IsTrimOf(config.consumerSecret, EnvVar(environment, "ZAIM_CONSUMER_SECRET")[1])
    /\ IsTrimOf(config.accessToken, EnvVar(environment, "ZAIM_ACCESS_TOKEN")[1])
    /\ IsTrimOf(config.accessTokenSecret, EnvVar(environment, "ZAIM_ACCESS_TOKEN_SECRET")[1])

CredentialsLoadedAsStated(invocation, missing) ==
    IF missing # {}
    THEN /\ invocation.loaded[1].kind = "throw"
         /\ invocation.loaded[1].message =
               "Missing required environment variable: " \o REQUIRED_ENV_VARS[Least(missing)]
         /\ invocation.built = invocation.loaded
         /\ client = <<>>
         /\ attempted = <<>>
         /\ calls = <<>>
    ELSE /\ invocation.loaded[1].kind = "return"
         /\ ConfigIsTrimmedEnv(invocation.loaded[1].value[1], env)
         /\ invocation.built = invocation.loaded
         /\ client = invocation.loaded[1].value

\* C19: getOAuthConfig raises 'Missing required environment variable: <NAME>'
\* for the first of ZAIM_CONSUMER_KEY, ZAIM_CONSUMER_SECRET, ZAIM_ACCESS_TOKEN,
\* ZAIM_ACCESS_TOKEN_SECRET that is unset, empty or whitespace-only, and
\* otherwise returns the four values trimmed; createZaimApiClient raises the
\* same error in the same cases and builds no client.
C19_MissingVariableNamedInOrder ==
    \A i \in 1..Len(invoked) :
        invoked[i].ran => CredentialsLoadedAsStated(invoked[i], MissingVars(env))

\* the consumer key is set, the consumer secret is spaces and the access
\* token is unset: the consumer secret is the one named
C19_Witness ==
    /\ invoked # <<>>
    /\ invoked[1].ran
    /\ EnvVar(env, "ZAIM_CONSUMER_KEY") = <<" ck ">>
    /\ EnvVar(env, "ZAIM_CONSUMER_SECRET") = <<" ">>
    /\ EnvVar(env, "ZAIM_ACCESS_TOKEN") = <<>>
    /\ invoked[1].built[1].message = "Missing required environment variable: ZAIM_CONSUMER_SECRET"

LacksGenreId(invocation) ==
    /\ invocation.args.t = "object"
    /\ ~HasKey(invocation.args.fields, "genre_id")

Rejected(invocation) ==
    /\ Finished(invocation)
    /\ invocation.outcome[1].kind = "throw"
    /\ ~invocation.ran

\* C20: a payment record cannot be created or updated without a genre_id:
\* the create-payment schema rejects every input that lacks genre_id and the
\* create-payment tool definition lists genre_id as required; the update
\* schema rejects every input with mode payment that lacks genre_id.
C20_PaymentNeedsGenreId ==
    \A i \in 1..Len(invoked) :
        /\ (invoked[i].name = "zaim_create_payment" /\ LacksGenreId(invoked[i])) =>
              /\ Rejected(invoked[i])
              /\ \E k \in 1..Len(createPaymentToolDefinition_required) :
                    createPaymentToolDefinition_required[k] = "genre_id"
        /\ (/\ invoked[i].name = "zaim_update_money_record"
            /\ LacksGenreId(invoked[i])
            /\ FieldOf(invoked[i].args, "mode") = Str("payment")) => Rejected(invoked[i])

\* the pairs of the input other than id and mode, in the order of the input
ChangedFields(input) == SelectSeq(input, LAMBDA pair : pair[1] \notin {"id", "mode"})

SendsOnlyChangedFields(invocation, call) ==
    /\ Len(calls) = 1
    /\ call.fetches = 1
    /\ call.method = "PUT"
    /\ call.options.method = "PUT"
    /\ call.endpoint = "/v2/home/money/" \o StringOf(Lookup(invocation.input[1], "mode")) \o "/"
                          \o StringOf(Lookup(invocation.input[1], "id"))
    /\ call.url = baseUrl \o call.endpoint
    /\ call.data = <<ChangedFields(invocation.input[1])>>

\* C21: updateMoneyRecordTool issues exactly one PUT to
\* /v2/home/money/<mode>/<id> whose body contains exactly the optional fields
\* present in the input (id and mode excluded) with their input values, and
\* no other field.
C21_UpdateSendsOnlyChangedFields ==
    \A i \in 1..Len(invoked) :
        (invoked[i].name = "zaim_update_money_record" /\ invoked[i].ran /\ calls # <<>>) =>
            SendsOnlyChangedFields(invoked[i], calls[1])

(***************************************************************************)
(* Several calls in flight on one client.  request runs without            *)
(* interruption up to its await of fetch; when fetch resolves,             *)
(* handleResponse runs up to its await of response.json(); when that       *)
(* settles, the response is classified and the call returns or raises.  A  *)
(* rejection of fetch goes to the catch of request at once.  The steps of  *)
(* different calls interleave freely.                                      *)
(***************************************************************************)

\* fetch resolves call i: handleResponse starts and awaits response.json()
FetchResolves(i, response) ==
    /\ i \in 1..Len(calls)
    /\ calls[i].settled = <<>>
    /\ calls' = [calls EXCEPT ![i].settled =
                    <<[ok |-> TRUE, response |-> response, error |-> ThrownNonError]>>]
    /\ UNCHANGED <<client, lastError, attempted, now, signerVars, toolVars>>

\* a handler that classified the response the client received last
JsonSettles_FromLatest(i) ==
    /\ i \in 1..Len(calls)
    /\ calls[i].settled # <<>>
    /\ calls[i].outcome = <<>>
    /\ \E j \in 1..Len(calls) :
          /\ calls[j].settled # <<>>
          /\ \A k \in (j + 1)..Len(calls) : calls[k].settled = <<>>
          /\ calls' = [calls EXCEPT ![i].outcome = <<RequestOutcome(calls[j].settled[1])>>]
    /\ UNCHANGED <<client, lastError, attempted, now, signerVars, toolVars>>

\* response.json() of call i settles: the rest of handleResponse, and the
\* catch of request
JsonSettles(i) ==
    /\ i \in 1..Len(calls)
    /\ calls[i].settled # <<>>
    /\ calls[i].outcome = <<>>
    /\ calls' = [calls EXCEPT ![i].outcome = <<RequestOutcome(calls[i].settled[1])>>]
    /\ UNCHANGED <<client, lastError, attempted, now, signerVars, toolVars>>

ConcurrentInit == ReplayInit

\* the caller issues a get, then a post, then a get, ... without waiting for
\* the calls it issued before
ConcurrentNext ==
    \/ /\ Len(calls) < MaxCalls
       /\ Len(calls) % 2 = 0
       /\ Get("/v2/home/money", <<PlainParams>>, "0", "0.k3x9")
    \/ /\ Len(calls) < MaxCalls
       /\ Len(calls) % 2 = 1
       /\ Post("/v2/home/money/payment", <<PlainParams>>, "0.k3x9", "0.k3x9")
    \/ Tick
    \/ \E i \in 1..Len(calls) :
          \/ \E response \in FewResponses : FetchResolves(i, response)
          \/ Reject(i, Thrown("fetch failed"))
          \/ JsonSettles(i)

ConcurrentSpec == ConcurrentInit /\ [][ConcurrentNext]_vars

\* what a call with these inputs does when no other call exists: the call
\* prepared from its own method, endpoint, parameters, random draws and clock
AloneRequest(config, call, url, requestParams) ==
    InFlight(call.method, call.endpoint, call.data, call.query, call.issuedAt, call.draws,
             url, requestParams,
             AuthHeaderParts(config, call.method, url, requestParams,
                             call.draws[1], call.draws[2], call.issuedAt))

Alone(config, call) ==
    AloneRequest(config, call, buildUrl(call.endpoint, call.query),
                 buildRequestParameters(call.data))

\* the outcome a call reaches from the answer of its own fetch
AloneOutcome(call) ==
    IF call.settled = <<>> THEN <<>> ELSE <<RequestOutcome(call.settled[1])>>

BehavesAsAlone(config, call) ==
    /\ [call EXCEPT !.settled = <<>>, !.outcome = <<>>] = Alone(config, call)
    /\ call.outcome # <<>> => call.outcome = AloneOutcome(call)
    /\ call.settled = <<>> => call.outcome = <<>>

\* C22: with several calls in flight on one client, in every interleaving of
\* their steps and of the transport's answers, each call has sent the request
\* that it would send alone (signed from its own method, URL, parameters,
\* nonce and timestamp) and its outcome is the one its own response gives.
C22_CallsBehaveAsAlone ==
    \A i \in 1..Len(calls) : BehavesAsAlone(client[1], calls[i])

\* two calls issued at different seconds with different nonces and answered
\* differently: the second has finished while the first, answered too, still
\* awaits the body of its response
C22_Witness ==
    /\ Len(calls) >= 2
    /\ calls[1].issuedAt # calls[2].issuedAt
    /\ calls[1].draws # calls[2].draws
    /\ calls[1].method # calls[2].method
    /\ calls[1].settled # <<>>
    /\ calls[1].outcome = <<>>
    /\ calls[2].outcome # <<>>
    /\ calls[1].settled # calls[2].settled
    /\ calls[1].settled[1].ok
    /\ calls[2].settled[1].ok

(***************************************************************************)
(* Properties of the use of the transport                                  *)
(***************************************************************************)
Failed(call) == call.outcome # <<>> /\ call.outcome[1].kind = "throw"

\* C23: each call of get, post, put or delete invokes fetch at most once,
\* whatever its outcome: a request that failed with an API error or with a
\* network error is not sent again.
C23_TransportInvokedAtMostOnce ==
    \A i \in 1..Len(calls) :
        /\ calls[i].fetches <= 1
        /\ Failed(calls[i]) => calls[i].settled # <<>>

\* a call whose fetch was rejected, ended in a network error after one fetch
C23_Witness ==
    \E i \in 1..Len(calls) :
        /\ Failed(calls[i])
        /\ ~calls[i].settled[1].ok
        /\ calls[i].outcome[1].message = "Network error occurred: fetch failed"
        /\ calls[i].fetches = 1

RaisedNetworkError(call) ==
    /\ Failed(call)
    /\ \/ StartsWith(call.outcome[1].message, "Network error occurred: ")
       \/ call.outcome[1].message = "Unknown network error occurred"

\* C24: a call raises a network error only when fetch was invoked and
\* produced no response; a failure while a received response is handled is
\* never reported as a network error.
C24_NetworkErrorOnlyWithoutResponse ==
    \A i \in 1..Len(calls) :
        RaisedNetworkError(calls[i]) => ~Received(calls[i])

(***************************************************************************)
(* The order of the normalized parameters                                  *)
(***************************************************************************)
\* the printable ASCII characters in the order of their code points
CodePointOrder ==
    " !\"#$%&'()*+,-./" \o DigitChars \o ":;<=>?@" \o UpperChars \o "[\\]^_"
        \o LowerChars \o "{|}~"

CodePoints(s) == [i \in 1..Len(s) |-> IndexOf(Ch(s, i), CodePointOrder)]

\* a before b, compared character by character on their code points
CodePointBefore(a, b) == CompareWeights(CodePoints(a), CodePoints(b)) < 0

InCodePointOrder(pairs) ==
    \A i, j \in 1..Len(pairs) : i < j => CodePointBefore(pairs[i][1], pairs[j][1])

\* C25: normalize emits the key=value pairs ordered by their percent-encoded
\* key in code point order, joined with '&'.
C25_OrderedByCodePoint ==
    signerOut # <<>> =>
        \E f \in Permutations(1..Len(signerIn.parameters)) :
            /\ InCodePointOrder(Reordered(EncodePairs(signerIn.parameters), f))
            /\ signerOut[1].normalized
                   = Join(KeyEqualsValue(Reordered(EncodePairs(signerIn.parameters), f)), "&")

(***************************************************************************)
(* What generateAuthHeader hands to the signer                             *)
(***************************************************************************)
SignedAsParameters(pairs, signedParams) ==
    \A k \in 1..Len(pairs) :
        /\ HasKey(signedParams, pairs[k][1])
        /\ Lookup(signedParams, pairs[k][1]) = pairs[k][2]

SignsPathOnly(call, pieces) ==
    /\ ~Includes(call.signedUrl, "?")
    /\ call.signedUrl = baseUrl \o call.endpoint
    /\ call.signedUrl = pieces[1]
    /\ Len(pieces) <= 2
    /\ SignedAsParameters(Coerced(call.query), call.signedParams)
    /\ SignedAsParameters(QueryPairsOf(pieces), call.signedParams)

\* C26: in every request the URL handed to the signer is the transmitted URL
\* with its query string removed, the base host followed by the caller's
\* path, without any '?'; the query parameters passed to get reach the signer
\* as members of the parameter set only.
C26_SignedUrlHasNoQuery ==
    \A i \in 1..Len(calls) : SignsPathOnly(calls[i], Split(calls[i].url, "?"))

\* a GET whose query value holds '%' and '?' was signed
C26_Witness ==
    \E i \in 1..Len(calls) :
        /\ calls[i].method = "GET"
        /\ calls[i].query = <<PercentParams>>
        /\ Includes(calls[i].url, "?q=50%25%3F")
        /\ Lookup(calls[i].signedParams, "q") = "50%?"

(***************************************************************************)
(* The state of a client                                                   *)
(***************************************************************************)
\* a call went to the base host and was signed for the given credential set
MadeWith(config, call) ==
    /\ StartsWith(call.url, baseUrl \o call.endpoint)
    /\ call.signedUrl = baseUrl \o call.endpoint
    /\ Lookup(call.headerParams, "oauth_consumer_key") = config.consumerKey
    /\ Lookup(call.headerParams, "oauth_token") = config.accessToken

\* C27: no get, post, put or delete, whether it returns or raises, changes
\* the credential set or the base host of the client: after any sequence of
\* calls they are the values validated at construction, and every call was
\* made with them.
C27_CredentialsAndHostUnchanged ==
    client # <<>> =>
        /\ client = attempted
        /\ validateConfig(client[1]) = ""
        /\ lastError = ""
        /\ \A i \in 1..Len(calls) : MadeWith(attempted[1], calls[i])

\* a client that has served two calls, one returned and one raised
C27_Witness ==
    /\ client # <<>>
    /\ Len(calls) = 2
    /\ calls[1].outcome # <<>>
    /\ calls[1].outcome[1].kind = "return"
    /\ Failed(calls[2])

(***************************************************************************)
(* Properties of the results of the tools                                  *)
(***************************************************************************)
IsListTool(invocation) ==
    /\ invocation.name \in ToolNames
    /\ ToolNamed(invocation.name).kind = "list"
    /\ invocation.ran
    /\ Finished(invocation)

\* what the client returned to the tool, if it returned
ClientReturned ==
    IF calls # <<>> /\ calls[1].outcome # <<>> /\ calls[1].outcome[1].kind = "return"
    THEN calls[1].outcome[1].value
    ELSE <<>>

HoldsArrayUnder(returned, field) ==
    /\ returned # <<>>
    /\ returned[1].t = "object"
    /\ HasKey(returned[1].fields, field)
    /\ Lookup(returned[1].fields, field).t = "array"

ListResultAsStated(tool, result, returned) ==
    /\ result.payload.t = "array"
    /\ result.count = <<Len(result.payload.fields)>>
    /\ result.flag <=> HoldsArrayUnder(returned, tool.field)
    /\ result.flag => result.payload = Lookup(returned[1].fields, tool.field)
    /\ ~result.flag => (result.payload.fields = <<>> /\ result.count = <<0>>)

\* C28: for every list tool the count of the result is the length of the
\* returned list; success is true exactly when the client returned a response
\* that holds an array under the field the tool reads, and in every other case
\* the list is empty and the count is 0.
C28_ListResults ==
    \A i \in 1..Len(invoked) :
        IsListTool(invoked[i]) =>
            ListResultAsStated(ToolNamed(invoked[i].name), invoked[i].result[1], ClientReturned)

\* the categories tool returned two categories
C28_Witness ==
    \E i \in 1..Len(invoked) :
        /\ IsListTool(invoked[i])
        /\ invoked[i].name = "zaim_get_user_categories"
        /\ invoked[i].result[1].flag
        /\ invoked[i].result[1].count = <<2>>

(***************************************************************************)
(* The oauth_* values signed and the oauth_* values sent                   *)
(***************************************************************************)
SixOAuthNames ==
    {"oauth_consumer_key", "oauth_nonce", "oauth_signature_method", "oauth_timestamp",
     "oauth_token", "oauth_version"}

SignedValuesAreHeaderValues(call, entries) ==
    \A name \in SixOAuthNames :
        /\ HasKey(call.signedParams, name)
        /\ HasKey(entries, name)
        /\ Lookup(call.signedParams, name) = Lookup(entries, name)

\* C29: in every request the six oauth_* values covered by the signature are
\* the six values sent in the Authorization header, whatever names the body
\* and query parameters have, names that start with oauth_ included.
C29_SignedOAuthValuesAreSent ==
    \A i \in 1..Len(calls) :
        SignedValuesAreHeaderValues(calls[i], HeaderEntries(AuthorizationOf(calls[i])))

IsSingleRecordTool(invocation) ==
    /\ invocation.name \in ToolNames
    /\ ToolNamed(invocation.name).kind \in {"auth", "user", "record", "deleted"}
    /\ invocation.ran
    /\ Finished(invocation)

Present(value) == value.t \notin {"null", "undefined"}

\* C30: for every single-record tool (auth check, user info, create payment,
\* create income, create transfer, update, delete) and every client response,
\* the success flag of the result (isAuthenticated for the auth check) is true
\* if and only if the returned user or record is present, neither null nor
\* undefined.
C30_SuccessIffRecordPresent ==
    \A i \in 1..Len(invoked) :
        IsSingleRecordTool(invoked[i]) =>
            (invoked[i].result[1].flag <=> Present(invoked[i].result[1].payload))

====
